---------------------------- MODULE Spec2Model ----------------------------
(***************************************************************************)
(* Model of the Google Tasks reconciliation engine of the reminder plugin  *)
(* (ReminderPlugin.syncGoogleTasks and its helpers), of the metadata codec *)
(* and of the checksum function it relies on.                              *)
(*                                                                         *)
(* Strings are sequences of character codes.  A document line is the       *)
(* checkbox state of the reminder plus the sequence of                     *)
(* "<!-- gtask:... -->" comment blocks it carries.  Remote task ids are    *)
(* the numbers 1..MaxTasks, handed out in order by the remote service.     *)
(*                                                                         *)
(* The module also models GoogleTasksService: the authorization flow       *)
(* (authorize, GoogleAuthServer), the token data in memory and in          *)
(* localStorage (initialize, refreshToken, clearTokenData) and the retry   *)
(* loop of the API operations (executeWithRetry).  Each part has its own   *)
(* specification: Spec (reconciliation), AuthSpec (authorization),         *)
(* TokenSpec (initialize and the refresh command as time passes) and       *)
(* RefreshSpec (initialize, the refresh command and an API operation,      *)
(* interleaved).  Token and verifier values are small numbers, 0 standing  *)
(* for an absent or empty value; times are in ms.                          *)
(*                                                                         *)
(* RetrySpec is the retry loop of one API operation after the other, with  *)
(* the fairness of an event loop in which every awaited thing settles.     *)
(* DriverSpec is the periodic driver (NotificationWorker).  CodecSpec and  *)
(* ChecksumSpec apply the metadata codec, on the text of a line, and the   *)
(* checksum to inputs drawn from small sets.                               *)
(* OverlapSpec runs two invocations of syncGoogleTasks at once, each       *)
(* once, over a partly synchronised document.  ListenerSpec is the         *)
(* loopback listener (GoogleAuthServer) alone, answering requests.         *)
(***************************************************************************)
EXTENDS Integers, Sequences, FiniteSets, TLC

(* ------------------------------ bounds -------------------------------- *)

\* number of reminders held by the reminder store (one document line each)
NumItems == 2

\* number of user / remote-side changes between passes in one behaviour
MaxChanges == 1

\* number of remote calls and document operations that fail in one behaviour
MaxFailures == 1

\* the task ids the remote service hands out: every reminder is created
\* once, and is created again only after a change or a failure
MaxTasks == NumItems + MaxChanges + MaxFailures

Items == 1..NumItems
TaskIds == 1..MaxTasks

\* invocations of syncGoogleTasks that can be in flight
PassIds == {"A", "B"}

(* ------------------------------ strings ------------------------------- *)

S_null == <<110, 117, 108, 108>>
S_true == <<116, 114, 117, 101>>
S_false == <<102, 97, 108, 115, 101>>
S_delim == <<124, 126, 124>>
S_midnight == <<84, 48, 48, 58, 48, 48, 58, 48, 48, 46, 48, 48, 48, 90>>
S_a == <<97>>
S_b == <<98>>
\* "2024-01-01T00:00:00.000Z"
S_iso1 == <<50, 48, 50, 52, 45, 48, 49, 45, 48, 49, 84, 48, 48, 58, 48, 48, 58, 48, 48, 46, 48, 48, 48, 90>>

SPACE == 32

RECURSIVE trimStart(_)
trimStart(s) ==
  IF s # <<>> /\ Head(s) = SPACE THEN trimStart(Tail(s)) ELSE s

RECURSIVE trimEnd(_)
trimEnd(s) ==
  IF s # <<>> /\ s[Len(s)] = SPACE THEN trimEnd(SubSeq(s, 1, Len(s) - 1)) ELSE s

trim(s) == trimEnd(trimStart(s))

\* String(part) of a boolean
StringOfBool(b) == IF b THEN S_true ELSE S_false

\* String.prototype.includes
includes(str, pat) ==
  \E i \in 1..(Len(str) - Len(pat) + 1) : SubSeq(str, i, i + Len(pat) - 1) = pat

\* String.prototype.toLowerCase, on ASCII
toLowerCase(str) ==
  [i \in 1..Len(str) |-> IF str[i] >= 65 /\ str[i] <= 90 THEN str[i] + 32 ELSE str[i]]

(* ------------------------------ checksum ------------------------------ *)

\* A 32-bit integer is kept as its two 16-bit halves, so that the
\* arithmetic of simpleHash wraps exactly as `hash |= 0` does.
Half == 65536
Byte == 256

Word(n) == [hi |-> 0, lo |-> n]

\* the product of two 16-bit halves, as a 32-bit word
Mul16(x, y) ==
  LET p0 == (x % Byte) * y
      p1 == (x \div Byte) * y
      lo == p0 + (p1 % Byte) * Byte
  IN  [hi |-> ((p1 \div Byte) + (lo \div Half)) % Half, lo |-> lo % Half]

\* a * b and a + b in 32 bits
Mul32(a, b) ==
  LET ll == Mul16(a.lo, b.lo)
  IN  [hi |-> (ll.hi + Mul16(a.hi, b.lo).lo + Mul16(a.lo, b.hi).lo) % Half, lo |-> ll.lo]

Add32(a, b) ==
  LET lo == a.lo + b.lo
  IN  [hi |-> (a.hi + b.hi + (lo \div Half)) % Half, lo |-> lo % Half]

\* one round of the loop of simpleHash on hash h:
\*   hash = (hash << 5) - hash + char; hash |= 0
\* that is 31 * hash + char in 32 bits
HashStep(h, c) ==
  LET lo == h.lo * 31 + c
  IN  [hi |-> (h.hi * 31 + (lo \div Half)) % Half, lo |-> lo % Half]

\* a string longer than this is hashed in two halves
MaxRun == 6

\* the rounds of the loop over str[from..to], started from hash h
RECURSIVE HashRun(_, _, _, _)
HashRun(h, str, from, to) ==
  IF from > to THEN h ELSE HashStep(HashRun(h, str, from, to - 1), str[to])

\* The rounds of the loop over str[from..to]: what they add to the hash
\* (add) and what they multiply the hash they start from by (mul), so
\* that the hash after them is mul * hash + add.  A long string is halved,
\* which keeps the depth of the evaluation logarithmic in its length.
RECURSIVE HashRounds(_, _, _)
HashRounds(str, from, to) ==
  IF to - from < MaxRun
  THEN [mul |-> HashRun(Word(1), [i \in 1..to |-> 0], from, to),
        add |-> HashRun(Word(0), str, from, to)]
  ELSE LET mid == (from + to) \div 2
           left == HashRounds(str, from, mid)
           right == HashRounds(str, mid + 1, to)
       IN  [mul |-> Mul32(left.mul, right.mul),
            add |-> Add32(Mul32(left.add, right.mul), right.add)]

\* let hash = 0; for (let i = 0; i < str.length; i++) { ... }
HashFold(str) == HashRounds(str, 1, Len(str)).add

HexDigit(d) == IF d < 10 THEN 48 + d ELSE 87 + d

RECURSIVE HexOfNat(_)
HexOfNat(n) ==
  IF n < 16 THEN <<HexDigit(n)>> ELSE Append(HexOfNat(n \div 16), HexDigit(n % 16))

RECURSIVE PadHex4(_)
PadHex4(s) == IF Len(s) < 4 THEN PadHex4(<<48>> \o s) ELSE s

\* Number.prototype.toString(16) of an unsigned 32-bit magnitude
HexOfPair(h) ==
  IF h.hi = 0 THEN HexOfNat(h.lo) ELSE HexOfNat(h.hi) \o PadHex4(HexOfNat(h.lo))

\* the magnitude of a negative 32-bit value (two's complement negation)
Negate(h) ==
  IF h.lo = 0 THEN [hi |-> (Half - h.hi) % Half, lo |-> 0]
  ELSE [hi |-> Half - 1 - h.hi, lo |-> Half - h.lo]

\* hash.toString(16) of the signed 32-bit value
ToHexString(h) ==
  IF h.hi >= Half \div 2 THEN <<45>> \o HexOfPair(Negate(h)) ELSE HexOfPair(h)

simpleHash(str) == ToHexString(HashFold(str))

\* reminder.time is absent (falsy)
NoTime == [iso |-> <<>>, hasTimePart |-> FALSE]

\* reminder.time.moment().toISOString()
toISOString(time) == time.iso

generateReminderChecksum(reminder) ==
  LET parts == << trim(reminder.title),
                  IF reminder.time # NoTime THEN toISOString(reminder.time) ELSE S_null,
                  StringOfBool(reminder.done) >>
      canonicalString == parts[1] \o S_delim \o parts[2] \o S_delim \o parts[3]
  IN  simpleHash(canonicalString)

\* the reminders the model ranges over
Titles == {S_a, S_b}
Time1 == [iso |-> S_iso1, hasTimePart |-> FALSE]
Times == {NoTime, Time1}
ReminderValues == [title : Titles, time : Times, done : BOOLEAN]

\* generateReminderChecksum of every reminder, computed once
checksumOf == [r \in ReminderValues |-> generateReminderChecksum(r)] @@ << >>

\* the TaskInput sent to the remote service; due is <<>> when omitted,
\* notes stands for the link to (file, rowNumber) of the reminder
convertObsidianToGoogleTask(reminder, row) ==
  [ title  |-> trim(reminder.title),
    due    |-> IF reminder.time = NoTime THEN <<>>
               ELSE IF reminder.time.hasTimePart THEN toISOString(reminder.time)
               ELSE SubSeq(toISOString(reminder.time), 1, 10) \o S_midnight,
    notes  |-> row,
    status |-> IF reminder.done THEN "completed" ELSE "needsAction" ]

(* --------------------------- metadata codec --------------------------- *)

\* `null` metadata
NoMeta == [id |-> 0, checksum |-> <<>>]

\* a comment block whose content is {"id":..,"checksum":..}
Block(m) == [wf |-> TRUE, id |-> m.id, checksum |-> m.checksum]

\* a comment block whose content is not a JSON object with both string fields
BadBlock == [wf |-> FALSE, id |-> 0, checksum |-> <<>>]

\* faulty variant of updateMarkdownLineWithMetadata: the new comment is
\* appended without the old ones being removed
appendWithoutStrip(originalLine, metadata) ==
  IF metadata = NoMeta THEN originalLine
  ELSE [originalLine EXCEPT !.blocks = Append(@, Block(metadata))]

\* lineWithoutComment + newComment: every existing block is stripped first
updateMarkdownLineWithMetadata(originalLine, metadata) ==
  LET lineWithoutComment == [originalLine EXCEPT !.blocks = <<>>]
  IN  IF metadata = NoMeta THEN lineWithoutComment
      ELSE [lineWithoutComment EXCEPT !.blocks = <<Block(metadata)>>]

\* the first block of the line, if it parses and has both fields
extractGoogleTaskMetadata(reminderLine) ==
  IF reminderLine.blocks = <<>> THEN NoMeta
  ELSE LET match == Head(reminderLine.blocks)
       IN  IF match.wf THEN [id |-> match.id, checksum |-> match.checksum]
           ELSE NoMeta


(* ------------------------------- state -------------------------------- *)

VARIABLES
  reminders,   \* the reminder store: item -> [title, time, done]
  lines,       \* the document: item (= rowNumber) -> [box, blocks]
  tasks,       \* the remote task list: id -> task
  nextTaskId,  \* the id the remote service hands out next
  listExists,  \* a remote list with the configured name exists
  pass,        \* invocation of syncGoogleTasks -> its locals and position
  obs,         \* invocation -> what an observer of that invocation has seen
  quiet,       \* the last pass to finish counted no error, and nothing changed since
  changes,     \* user / remote-side changes made so far
  failures,    \* remote calls and document operations that have failed so far
  tokenData,   \* GoogleTasksService.tokenData (NoToken: null)
  storage,     \* localStorage: the token record, the code verifier, the redirect URI
  now,         \* Date.now()
  authInProgress, \* GoogleTasksService.authInProgress
  authServer,  \* GoogleTasksService.authServer (0: null, else the listener's number)
  codeVerifier,   \* GoogleTasksService.codeVerifier (0: "")
  servers,     \* GoogleAuthServer objects: number -> [server, promise, timers]
  caller,      \* invocation of authorize -> its position
  seen,        \* what an observer of the authorization flows has seen
  proc,        \* invocation of initialize, of the refresh command, of an API
               \* operation -> its locals and position, and what has been seen of it
  nextToken,   \* the access token the token endpoint hands out next
  worker,      \* the periodic driver: the locals of startPeriodicTask, the
               \* invocations of periodicTask in flight, and what has been seen
  sample       \* a line, metadata and reminders drawn as inputs of the codec
               \* and of the checksum, and the results of applying them

syncVars == <<reminders, lines, tasks, nextTaskId, listExists, pass, obs, quiet, changes,
              failures>>
tokenVars == <<tokenData, storage, now>>
authVars == <<authInProgress, authServer, codeVerifier, servers, caller, seen>>
procVars == <<proc, nextToken>>
otherVars == <<worker, sample>>
serviceVars == <<tokenVars, authVars, procVars, otherVars>>
vars == <<syncVars, serviceVars>>


NoTask == [status |-> "absent", deleted |-> FALSE, title |-> <<>>, due |-> <<>>, notes |-> 0]
NoInput == [title |-> <<>>, due |-> <<>>, notes |-> 0, status |-> "none"]

ZeroCounts == [created |-> 0, updated |-> 0, skipped |-> 0, completedLocally |-> 0, error |-> 0]

IdlePass ==
  [pc |-> "idle", idx |-> 0, activeIds |-> {}, counts |-> ZeroCounts,
   existingMetadata |-> NoMeta, currentChecksum |-> <<>>, taskInput |-> NoInput,
   newMetadata |-> NoMeta, resultStatus |-> "none"]

NoLine == [box |-> "none", blocks |-> <<>>]

\* what has been seen of the item being processed: the branch taken, the
\* answer of the direct fetch, the remote calls and document writes made
NoItemObs ==
  [branch |-> "none", fetch |-> "none", creates |-> 0, updates |-> 0, writes |-> 0,
   createdId |-> 0, failed |-> FALSE, wroteMeta |-> FALSE, lineBefore |-> NoLine,
   removal |-> "none", fetchFailed |-> FALSE]

ZeroTally ==
  [created |-> 0, updated |-> 0, recreated |-> 0, completedLocally |-> 0,
   skipped |-> 0, error |-> 0]

\* what has been seen of an invocation: how it ended, the notices it showed,
\* its remote calls and document writes, and the outcome of each item so far
FreshObs ==
  [ended |-> "none", afterQuiet |-> FALSE, errorNotices |-> 0, summaries |-> 0,
   listAbsent |-> FALSE, creates |-> 0, updates |-> 0, writes |-> 0,
   processed |-> 0, tally |-> ZeroTally, item |-> NoItemObs]

(* ------------------------- the service at rest ------------------------ *)

\* flows of authorize that get past the guard (one GoogleAuthServer each)
MaxFlows == 2

\* requests the browser sends to one callback listener
MaxRequests == 1

ServerIds == 1..MaxFlows

\* the callers of authorize (the command, the settings tab)
Callers == {"c1", "c2"}

\* the safety buffer of isTokenExpired, in ms
BufferMs == 300000

\* expires_in * 1000 of a token response (0: expires_in is 0)
Lifetimes == {0, BufferMs, 2 * BufferMs}

\* tokenData = null
NoToken == [held |-> FALSE, access_token |-> 0, refresh_token |-> 0, expires_at |-> 0]

\* localStorage without the three records (0: no such item)
EmptyStorage == [token |-> NoToken, verifier |-> 0, redirect |-> 0]

\* a GoogleAuthServer that has not been constructed
NoServer ==
  [made |-> FALSE, server |-> "null", bound |-> FALSE, closing |-> FALSE,
   promise |-> "none", requests |-> 0, timers |-> 0]

\* no invocation of authorize
IdleCaller ==
  [pc |-> "idle", own |-> 0, awaited |-> 0, authCode |-> 0, currentRedirectUri |-> 0,
   codeChallenge |-> 0, code_verifier |-> 0, redirect_uri |-> 0]

\* the default of retryDelay in executeWithRetry, in ms
InitialDelayMs == 1000

\* the default of maxRetries in executeWithRetry
maxRetries == 3

\* response.headers.get("Retry-After") of a response without the header
NoRetryAfter == <<>>

\* initialize, the refresh command, an API operation
Procs == {"init", "cmd", "op"}

\* what has been seen of one invocation: its refresh (requests sent, how the
\* last one ended, what refreshToken left behind when it ended), its API
\* requests, the state it left behind when it ended, and, when the error
\* seen last is an API error, the body of the response it was made from and
\* what its message carries after "API error: <status> <reason> - "
FreshLog ==
  [refreshes |-> 0, result |-> "none", memKept |-> FALSE, storeKept |-> FALSE,
   allCleared |-> FALSE, merged |-> FALSE, lastSeen |-> "null",
   refreshFailed |-> FALSE, afterFailure |-> FALSE, pending |-> 0, stale |-> FALSE,
   exhausted |-> FALSE, heldAtEnd |-> FALSE, authAtEnd |-> FALSE,
   body |-> "none", detail |-> "none"]

\* no invocation.  timer is the delay of the setTimeout the invocation is
\* waiting for, retryAfter the header of the 429 response it is waiting
\* after, waits the number of waits of this invocation that are over and
\* requests the number of times it has called requestFn.
IdleProc ==
  [pc |-> "idle", attempt |-> 0, lastError |-> "null", retryDelay |-> InitialDelayMs,
   retryAfter |-> NoRetryAfter, timer |-> 0, waits |-> 0, requests |-> 0,
   bearer |-> 0, outcome |-> "none", thrown |-> "null", log |-> FreshLog]

\* what has been seen of one invocation of authorize: how it ended, what it
\* did, and the state it left behind when it ended
FreshSeen ==
  [outcome |-> "none", listeners |-> 0, verifiers |-> 0, opens |-> 0, writes |-> 0,
   exchange |-> "none", listenerAtEnd |-> FALSE, flagAtEnd |-> FALSE,
   verifierAtEnd |-> 0, redirectAtEnd |-> 0, shown |-> "none"]

\* no authorization flow
AuthAtRest ==
  /\ authInProgress = FALSE
  /\ authServer = 0
  /\ codeVerifier = 0
  /\ servers = [n \in ServerIds |-> NoServer]
  /\ caller = [c \in Callers |-> IdleCaller]
  /\ seen = [c \in Callers |-> FreshSeen]

\* no invocation of initialize, of the refresh command or of an operation
ProcAtRest ==
  /\ proc = [p \in Procs |-> IdleProc]
  /\ nextToken = 2

\* the service as constructed, nothing in localStorage; the reconciliation
\* engine is followed without the invocations of the service's own
\* operations, whose tables are left empty
ServiceAtRest ==
  /\ tokenData = NoToken
  /\ storage = EmptyStorage
  /\ now = 0
  /\ authInProgress = FALSE
  /\ authServer = 0
  /\ codeVerifier = 0
  /\ servers = << >>
  /\ caller = << >>
  /\ seen = << >>
  /\ proc = << >>
  /\ nextToken = 2
  /\ worker = << >>
  /\ sample = << >>

\* the reminders as first scanned: never synced, all open or all done, the
\* store agreeing with the checkboxes of the document
Init ==
  /\ \E done \in BOOLEAN :
       reminders = [i \in Items |-> [title |-> S_a, time |-> NoTime, done |-> done]]
  /\ lines = [i \in Items |-> [box |-> IF reminders[i].done THEN "done" ELSE "open",
                               blocks |-> <<>>]]
  /\ tasks = [id \in TaskIds |-> NoTask]
  /\ nextTaskId = 1
  /\ listExists \in BOOLEAN
  /\ pass = [p \in PassIds |-> IdlePass]
  /\ obs = [p \in PassIds |-> FreshObs]
  /\ quiet = FALSE
  /\ changes = 0
  /\ failures = 0
  /\ ServiceAtRest

(* --------------------------- remote service --------------------------- *)

\* tasks.list with showCompleted=false, showHidden=false: the active tasks
ActiveIds(ts) ==
  {id \in TaskIds : ts[id].status = "needsAction" /\ ~ts[id].deleted}

\* tasks.insert
InsertedTask(input) ==
  [status |-> input.status, deleted |-> FALSE, title |-> input.title,
   due |-> input.due, notes |-> input.notes]

\* tasks.patch
PatchedTask(task, input) ==
  [task EXCEPT !.status = input.status, !.title = input.title,
               !.due = input.due, !.notes = input.notes]

\* the messages of the errors getTask throws (enhanceError): a 404 response,
\* a 500 response, a 500 response whose body names a trace, no response
\* "Failed to retrieve task: API error: 404 Not Found - Requested entity was not found."
E_404 == <<70, 97, 105, 108, 101, 100, 32, 116, 111, 32, 114, 101, 116, 114, 105, 101, 118,
  101, 32, 116, 97, 115, 107, 58, 32, 65, 80, 73, 32, 101, 114, 114, 111, 114, 58, 32, 52, 48,
  52, 32, 78, 111, 116, 32, 70, 111, 117, 110, 100, 32, 45, 32, 82, 101, 113, 117, 101, 115,
  116, 101, 100, 32, 101, 110, 116, 105, 116, 121, 32, 119, 97, 115, 32, 110, 111, 116, 32,
  102, 111, 117, 110, 100, 46>>
\* "Failed to retrieve task: API error: 500 Internal Server Error - Backend Error"
E_500 == <<70, 97, 105, 108, 101, 100, 32, 116, 111, 32, 114, 101, 116, 114, 105, 101, 118,
  101, 32, 116, 97, 115, 107, 58, 32, 65, 80, 73, 32, 101, 114, 114, 111, 114, 58, 32, 53, 48,
  48, 32, 73, 110, 116, 101, 114, 110, 97, 108, 32, 83, 101, 114, 118, 101, 114, 32, 69, 114,
  114, 111, 114, 32, 45, 32, 66, 97, 99, 107, 101, 110, 100, 32, 69, 114, 114, 111, 114>>
\* "Failed to retrieve task: API error: 500 Internal Server Error - Backend Error (trace 14047)"
E_500trace == <<70, 97, 105, 108, 101, 100, 32, 116, 111, 32, 114, 101, 116, 114, 105, 101,
  118, 101, 32, 116, 97, 115, 107, 58, 32, 65, 80, 73, 32, 101, 114, 114, 111, 114, 58, 32, 53,
  48, 48, 32, 73, 110, 116, 101, 114, 110, 97, 108, 32, 83, 101, 114, 118, 101, 114, 32, 69,
  114, 114, 111, 114, 32, 45, 32, 66, 97, 99, 107, 101, 110, 100, 32, 69, 114, 114, 111, 114,
  32, 40, 116, 114, 97, 99, 101, 32, 49, 52, 48, 52, 55, 41>>
\* "Failed to retrieve task: Failed to fetch"
E_network == <<70, 97, 105, 108, 101, 100, 32, 116, 111, 32, 114, 101, 116, 114, 105, 101, 118,
  101, 32, 116, 97, 115, 107, 58, 32, 70, 97, 105, 108, 101, 100, 32, 116, 111, 32, 102, 101,
  116, 99, 104>>

\* the failures of getTask other than a 404
GetTaskFailures == {E_500, E_500trace, E_network}

\* "404"
S_404 == <<52, 48, 52>>
\* "not found"
S_notFound == <<110, 111, 116, 32, 102, 111, 117, 110, 100>>

\* getError.message.includes("404") || ...toLowerCase().includes("not found")
IsNotFoundError(message) ==
  includes(message, S_404) \/ includes(toLowerCase(message), S_notFound)


(* ------------------------- document operations ------------------------ *)

\* updateReminderCommentInFile: read the file, rewrite the line, write the
\* file back.  ioOk = FALSE: the read or the write raises (or the row is out
\* of bounds); the error is caught and false is returned.
updateReminderCommentInFile(originalLine, metadata, ioOk) ==
  LET updatedLine == updateMarkdownLineWithMetadata(originalLine, metadata)
  IN  IF ~ioOk THEN [line |-> originalLine, ok |-> FALSE, wrote |-> FALSE]
      ELSE [line |-> updatedLine, ok |-> TRUE, wrote |-> updatedLine # originalLine]

\* faulty variant of handleCompleteObsidianReminder: the checkbox is
\* flipped, the comment keeps the checksum of the open reminder
completeWithoutRefresh(reminder, originalLine, io) ==
  IF io = "readFail"
  THEN [reminder |-> reminder, line |-> originalLine, ok |-> FALSE, wrote |-> FALSE]
  ELSE IF originalLine.box = "open"
  THEN IF io = "writeFail"
       THEN [reminder |-> [reminder EXCEPT !.done = TRUE], line |-> originalLine,
             ok |-> FALSE, wrote |-> FALSE]
       ELSE [reminder |-> [reminder EXCEPT !.done = TRUE],
             line |-> [originalLine EXCEPT !.box = "done"], ok |-> TRUE, wrote |-> TRUE]
  ELSE [reminder |-> reminder, line |-> originalLine, ok |-> TRUE, wrote |-> FALSE]

\* handleCompleteObsidianReminder.  io: "ok", "readFail" (vault.read raises or
\* the row is out of bounds) or "writeFail" (vault.modify raises).
handleCompleteObsidianReminder(reminder, originalLine, io) ==
  IF io = "readFail"
  THEN [reminder |-> reminder, line |-> originalLine, ok |-> FALSE, wrote |-> FALSE]
  ELSE IF originalLine.box = "open"
  THEN LET modifiedLine == [originalLine EXCEPT !.box = "done"]
           doneReminder == [reminder EXCEPT !.done = TRUE]
           currentChecksum == checksumOf[doneReminder]
           existingMetadata == extractGoogleTaskMetadata(originalLine)
           newLine == IF existingMetadata # NoMeta
                      THEN updateMarkdownLineWithMetadata(modifiedLine,
                             [id |-> existingMetadata.id, checksum |-> currentChecksum])
                      ELSE modifiedLine
       IN  IF io = "writeFail"
           THEN [reminder |-> doneReminder, line |-> originalLine, ok |-> FALSE, wrote |-> FALSE]
           ELSE [reminder |-> doneReminder, line |-> newLine, ok |-> TRUE, wrote |-> TRUE]
  ELSE [reminder |-> reminder, line |-> originalLine, ok |-> TRUE, wrote |-> FALSE]

(* ------------------------------ decisions ----------------------------- *)

\* faulty variant of ExistingTaskBranch: a linked active task is skipped
\* without the checksums being compared
skipWhenLinked(existingMetadata, currentChecksum, activeIds) ==
  IF existingMetadata.id \in activeIds THEN "skip" ELSE "stale"

\* handleExistingTaskSync: the branch taken for an item that has metadata
ExistingTaskBranch(existingMetadata, currentChecksum, activeIds) ==
  IF existingMetadata.id \in activeIds
  THEN IF existingMetadata.checksum = currentChecksum THEN "skip" ELSE "update"
  ELSE "stale"

\* faulty variant of StaleLinkBranch: a 404 is handled like any other
\* failure of getTask
errorOnNotFound(fetch) ==
  CASE fetch = "completed" -> "complete"
    [] fetch = "other"     -> "recreate"
    [] OTHER               -> "error"

\* handlePotentiallyStaleLink: the branch taken on the answer of getTask
StaleLinkBranch(fetch) ==
  CASE fetch = "completed" -> "complete"
    [] fetch = "other"     -> "recreate"
    [] fetch = "e404"      -> "recreate"
    [] OTHER               -> "error"

\* the answer of getTask as handlePotentiallyStaleLink sees it
FetchOfTask(task) == IF task.status = "completed" THEN "completed" ELSE "other"
FetchOfError(message) == IF IsNotFoundError(message) THEN "e404" ELSE "eOther"

\* faulty variant of CountStatus: a recreated item is counted nowhere
countWithoutRecreated(counts, resultStatus) ==
  CASE resultStatus = "created"          -> [counts EXCEPT !.created = @ + 1]
    [] resultStatus = "updated"          -> [counts EXCEPT !.updated = @ + 1]
    [] resultStatus = "recreated"        -> counts
    [] resultStatus = "skipped"          -> [counts EXCEPT !.skipped = @ + 1]
    [] resultStatus = "completedLocally" -> [counts EXCEPT !.completedLocally = @ + 1]
    [] OTHER                             -> [counts EXCEPT !.error = @ + 1]

\* switch (resultStatus) of syncGoogleTasks
CountStatus(counts, resultStatus) ==
  CASE resultStatus = "created"          -> [counts EXCEPT !.created = @ + 1]
    [] resultStatus = "updated"          -> [counts EXCEPT !.updated = @ + 1]
    [] resultStatus = "recreated"        -> [counts EXCEPT !.created = @ + 1]
    [] resultStatus = "skipped"          -> [counts EXCEPT !.skipped = @ + 1]
    [] resultStatus = "completedLocally" -> [counts EXCEPT !.completedLocally = @ + 1]
    [] OTHER                             -> [counts EXCEPT !.error = @ + 1]


(* --------------------------- the sync pass ---------------------------- *)

\* a remote call or a document operation may fail
CanFail == failures < MaxFailures
Answers == IF CanFail THEN BOOLEAN ELSE {TRUE}
Failing(failed) == failures' = failures + (IF failed THEN 1 ELSE 0)

PassesIdle == \A p \in PassIds : pass[p].pc = "idle"

\* faulty variant of AbortPass: the failure is logged and the loop is entered
\* all the same, with an empty snapshot
continueIntoLoop(ps) == [ps EXCEPT !.pc = "readLine", !.idx = 1]

\* the catch of syncGoogleTasks, and the return on a list that is not found:
\* the invocation ends
AbortPass(ps) == [ps EXCEPT !.pc = "idle"]

\* the position after the switch: the next reminder, or the end of the loop
AfterItem(ps) ==
  IF ps.idx < NumItems
  THEN [ps EXCEPT !.pc = "readLine", !.idx = @ + 1,
                  !.existingMetadata = NoMeta, !.currentChecksum = <<>>,
                  !.taskInput = NoInput, !.newMetadata = NoMeta, !.resultStatus = "none"]
  ELSE [ps EXCEPT !.pc = "idle",
                  !.existingMetadata = NoMeta, !.currentChecksum = <<>>,
                  !.taskInput = NoInput, !.newMetadata = NoMeta, !.resultStatus = "none"]

\* faulty variant of Returned: the loop does not wait for the handler and
\* goes on to the next reminder
returnWithoutTally(ps, status) == AfterItem([ps EXCEPT !.resultStatus = status])

\* a handler returns `status` to the loop body
Returned(ps, status) == [ps EXCEPT !.pc = "tally", !.resultStatus = status]

\* syncGoogleTasks is invoked: the two guards, then the counters are zeroed
\* and the target list is looked up
SyncStart(p) ==
  /\ pass[p].pc = "idle"
  /\ \E enableGoogleTasks, isAuthenticated \in BOOLEAN :
       IF enableGoogleTasks /\ isAuthenticated
       THEN /\ pass' = [pass EXCEPT ![p] = [IdlePass EXCEPT !.pc = "getTaskListByName"]]
            /\ obs' = [obs EXCEPT ![p] = [FreshObs EXCEPT !.afterQuiet = quiet]]
       ELSE /\ pass' = [pass EXCEPT ![p] = IdlePass]
            /\ obs' = [obs EXCEPT ![p] = [FreshObs EXCEPT !.ended = "guard"]]
  /\ UNCHANGED <<reminders, lines, tasks, nextTaskId, listExists, quiet, changes, failures>>
  /\ UNCHANGED serviceVars

\* getTaskListByName answers: it raises, finds no list, or finds the list
ResolveList(p) ==
  /\ pass[p].pc = "getTaskListByName"
  /\ \E ok \in Answers : Failing(~ok) /\
       IF ~ok
       THEN /\ pass' = [pass EXCEPT ![p] = AbortPass(@)]
            /\ obs' = [obs EXCEPT ![p].ended = "setupError", ![p].errorNotices = @ + 1]
       ELSE IF ~listExists
       THEN /\ pass' = [pass EXCEPT ![p] = AbortPass(@)]
            /\ obs' = [obs EXCEPT ![p].ended = "noList", ![p].listAbsent = TRUE,
                                  ![p].errorNotices = @ + 1]
       ELSE /\ pass' = [pass EXCEPT ![p].pc = "getTasks"]
            /\ obs' = obs
  /\ UNCHANGED <<reminders, lines, tasks, nextTaskId, listExists, quiet, changes>>
  /\ UNCHANGED serviceVars

\* getTasks answers: it raises, or gives the active tasks; the loop starts
FetchActive(p) ==
  /\ pass[p].pc = "getTasks"
  /\ \E ok \in Answers : Failing(~ok) /\
       IF ~ok
       THEN /\ pass' = [pass EXCEPT ![p] = AbortPass(@)]
            /\ obs' = [obs EXCEPT ![p].ended = "setupError", ![p].errorNotices = @ + 1]
       ELSE /\ pass' = [pass EXCEPT ![p].pc = "readLine", ![p].idx = 1,
                                    ![p].activeIds = ActiveIds(tasks)]
            /\ obs' = obs
  /\ UNCHANGED <<reminders, lines, tasks, nextTaskId, listExists, quiet, changes>>
  /\ UNCHANGED serviceVars

\* getReminderMarkdownLine answers; the metadata is extracted, the checksum
\* and the task input computed, and the handler for the item is entered up
\* to its first request
ReadLine(p) ==
  /\ pass[p].pc = "readLine"
  /\ LET i == pass[p].idx
         existingMetadata == extractGoogleTaskMetadata(lines[i])
         currentChecksum == checksumOf[reminders[i]]
         taskInput == convertObsidianToGoogleTask(reminders[i], i)
         branch == IF existingMetadata = NoMeta THEN "create"
                   ELSE ExistingTaskBranch(existingMetadata, currentChecksum, pass[p].activeIds)
         entered == [pass[p] EXCEPT !.existingMetadata = existingMetadata,
                                    !.currentChecksum = currentChecksum,
                                    !.taskInput = taskInput]
     IN  \E ok \in Answers : Failing(~ok) /\
           IF ~ok
           THEN /\ pass' = [pass EXCEPT ![p] = Returned(@, "skipped")]
                /\ obs' = [obs EXCEPT ![p].item =
                             [NoItemObs EXCEPT !.branch = "unread", !.failed = TRUE,
                                               !.lineBefore = lines[i]]]
           ELSE /\ pass' = [pass EXCEPT ![p] =
                             CASE branch = "create" -> [entered EXCEPT !.pc = "createTask"]
                               [] branch = "skip"   -> Returned(entered, "skipped")
                               [] branch = "update" -> [entered EXCEPT !.pc = "updateTask"]
                               [] OTHER             -> [entered EXCEPT !.pc = "getTask"]]
                /\ obs' = [obs EXCEPT ![p].item =
                             [NoItemObs EXCEPT !.branch = branch, !.lineBefore = lines[i]]]
  /\ UNCHANGED <<reminders, lines, tasks, nextTaskId, listExists, quiet, changes>>
  /\ UNCHANGED serviceVars

\* faulty variant of CreatedMetadata: the checksum is left empty
metadataWithoutChecksum(createdTaskId, currentChecksum) ==
  [id |-> createdTaskId, checksum |-> <<>>]

\* newMetadata = { id: createdTask.id, checksum: currentChecksum }
CreatedMetadata(createdTaskId, currentChecksum) ==
  [id |-> createdTaskId, checksum |-> currentChecksum]

\* the remote service can still hand out an id
CanInsert == nextTaskId <= MaxTasks

\* createTask answers (handleCreateGoogleTask)
CreateTask(p) ==
  /\ pass[p].pc = "createTask"
  /\ \E ok \in (IF CanInsert THEN Answers ELSE {FALSE}) : Failing(~ok) /\
       IF ok
       THEN /\ tasks' = [tasks EXCEPT ![nextTaskId] = InsertedTask(pass[p].taskInput)]
            /\ nextTaskId' = nextTaskId + 1
            /\ pass' = [pass EXCEPT ![p].pc = "createWrite",
                          ![p].newMetadata =
                            CreatedMetadata(nextTaskId, pass[p].currentChecksum)]
            /\ obs' = [obs EXCEPT ![p].creates = @ + 1, ![p].item.creates = @ + 1,
                                  ![p].item.createdId = nextTaskId]
       ELSE /\ pass' = [pass EXCEPT ![p] = Returned(@, "error")]
            /\ obs' = [obs EXCEPT ![p].creates = @ + 1, ![p].item.creates = @ + 1,
                                  ![p].item.failed = TRUE]
            /\ UNCHANGED <<tasks, nextTaskId>>
  /\ UNCHANGED <<reminders, lines, listExists, quiet, changes>>
  /\ UNCHANGED serviceVars

\* the metadata of the created task is written to the line; the result of
\* updateReminderCommentInFile is not looked at (handleCreateGoogleTask)
CreateWrite(p) ==
  /\ pass[p].pc = "createWrite"
  /\ \E ioOk \in Answers : Failing(~ioOk) /\
       LET i == pass[p].idx
           r == updateReminderCommentInFile(lines[i], pass[p].newMetadata, ioOk)
       IN  /\ lines' = [lines EXCEPT ![i] = r.line]
           /\ pass' = [pass EXCEPT ![p] = Returned(@, "created")]
           /\ obs' = [obs EXCEPT ![p].writes = @ + (IF r.wrote THEN 1 ELSE 0),
                                 ![p].item.writes = @ + (IF r.wrote THEN 1 ELSE 0),
                                 ![p].item.wroteMeta = r.ok,
                                 ![p].item.failed = @ \/ ~r.ok]
  /\ UNCHANGED <<reminders, tasks, nextTaskId, listExists, quiet, changes>>
  /\ UNCHANGED serviceVars

\* updateTask answers (handleExistingTaskSync)
UpdateTask(p) ==
  /\ pass[p].pc = "updateTask"
  /\ LET id == pass[p].existingMetadata.id
     IN  \E ok \in (IF tasks[id].status # "absent" THEN Answers ELSE {FALSE}) : Failing(~ok) /\
           IF ok
           THEN /\ tasks' = [tasks EXCEPT ![id] = PatchedTask(@, pass[p].taskInput)]
                /\ pass' = [pass EXCEPT ![p].pc = "updateWrite",
                              ![p].newMetadata = [id |-> id,
                                                  checksum |-> pass[p].currentChecksum]]
                /\ obs' = [obs EXCEPT ![p].updates = @ + 1, ![p].item.updates = @ + 1]
           ELSE /\ pass' = [pass EXCEPT ![p] = Returned(@, "error")]
                /\ obs' = [obs EXCEPT ![p].updates = @ + 1, ![p].item.updates = @ + 1,
                                      ![p].item.failed = TRUE]
                /\ UNCHANGED tasks
  /\ UNCHANGED <<reminders, lines, nextTaskId, listExists, quiet, changes>>
  /\ UNCHANGED serviceVars

\* the new checksum is written to the line; the result of
\* updateReminderCommentInFile is not looked at (handleExistingTaskSync)
UpdateWrite(p) ==
  /\ pass[p].pc = "updateWrite"
  /\ \E ioOk \in Answers : Failing(~ioOk) /\
       LET i == pass[p].idx
           r == updateReminderCommentInFile(lines[i], pass[p].newMetadata, ioOk)
       IN  /\ lines' = [lines EXCEPT ![i] = r.line]
           /\ pass' = [pass EXCEPT ![p] = Returned(@, "updated")]
           /\ obs' = [obs EXCEPT ![p].writes = @ + (IF r.wrote THEN 1 ELSE 0),
                                 ![p].item.writes = @ + (IF r.wrote THEN 1 ELSE 0),
                                 ![p].item.wroteMeta = r.ok,
                                 ![p].item.failed = @ \/ ~r.ok]
  /\ UNCHANGED <<reminders, tasks, nextTaskId, listExists, quiet, changes>>
  /\ UNCHANGED serviceVars


\* getTask answers (handlePotentiallyStaleLink): the task, a 404 when the
\* remote service no longer has it, or another failure
GetTask(p) ==
  /\ pass[p].pc = "getTask"
  /\ LET id == pass[p].existingMetadata.id
         found == tasks[id].status # "absent"
         errors == (IF found THEN {} ELSE {E_404})
                     \cup (IF CanFail THEN GetTaskFailures ELSE {})
         fetches == (IF found THEN {[fetch |-> FetchOfTask(tasks[id]), failed |-> FALSE]}
                     ELSE {})
                      \cup {[fetch |-> FetchOfError(message), failed |-> message # E_404] :
                              message \in errors}
     IN  \E answer \in fetches : Failing(answer.failed) /\
           LET branch == StaleLinkBranch(answer.fetch)
           IN  /\ pass' = [pass EXCEPT ![p] =
                            CASE branch = "complete" -> [@ EXCEPT !.pc = "completeLocal"]
                              [] branch = "recreate" -> [@ EXCEPT !.pc = "recreateRemove"]
                              [] OTHER               -> Returned(@, "error")]
               /\ obs' = [obs EXCEPT ![p].item.fetch = answer.fetch,
                                     ![p].item.fetchFailed = answer.failed,
                                     ![p].item.failed = (branch = "error")]
  /\ UNCHANGED <<reminders, lines, tasks, nextTaskId, listExists, quiet, changes>>
  /\ UNCHANGED serviceVars

\* handleCompleteObsidianReminder runs (handlePotentiallyStaleLink)
CompleteLocal(p) ==
  /\ pass[p].pc = "completeLocal"
  /\ \E io \in {"ok"} \cup (IF CanFail THEN {"readFail"} ELSE {})
                     \cup (IF CanFail /\ lines[pass[p].idx].box = "open"
                           THEN {"writeFail"} ELSE {}) : Failing(io # "ok") /\
       LET i == pass[p].idx
           r == handleCompleteObsidianReminder(reminders[i], lines[i], io)
       IN  /\ reminders' = [reminders EXCEPT ![i] = r.reminder]
           /\ lines' = [lines EXCEPT ![i] = r.line]
           /\ pass' = [pass EXCEPT ![p] =
                         Returned(@, IF r.ok THEN "completedLocally" ELSE "error")]
           /\ obs' = [obs EXCEPT ![p].writes = @ + (IF r.wrote THEN 1 ELSE 0),
                                 ![p].item.writes = @ + (IF r.wrote THEN 1 ELSE 0),
                                 ![p].item.failed = ~r.ok]
  /\ UNCHANGED <<tasks, nextTaskId, listExists, quiet, changes>>
  /\ UNCHANGED serviceVars

\* step 1 of recreateGoogleTaskAndUpdateComment: the old comment is removed,
\* best effort (the result is not looked at)
RecreateRemove(p) ==
  /\ pass[p].pc = "recreateRemove"
  /\ \E ioOk \in Answers : Failing(~ioOk) /\
       LET i == pass[p].idx
           r == updateReminderCommentInFile(lines[i], NoMeta, ioOk)
       IN  /\ lines' = [lines EXCEPT ![i] = r.line]
           /\ pass' = [pass EXCEPT ![p].pc = "recreateCreate"]
           /\ obs' = [obs EXCEPT ![p].writes = @ + (IF r.wrote THEN 1 ELSE 0),
                                 ![p].item.writes = @ + (IF r.wrote THEN 1 ELSE 0),
                                 ![p].item.removal = IF r.ok THEN "done" ELSE "failed"]
  /\ UNCHANGED <<reminders, tasks, nextTaskId, listExists, quiet, changes>>
  /\ UNCHANGED serviceVars

\* step 2: createTask answers
RecreateCreate(p) ==
  /\ pass[p].pc = "recreateCreate"
  /\ \E ok \in (IF CanInsert THEN Answers ELSE {FALSE}) : Failing(~ok) /\
       IF ok
       THEN /\ tasks' = [tasks EXCEPT ![nextTaskId] = InsertedTask(pass[p].taskInput)]
            /\ nextTaskId' = nextTaskId + 1
            /\ pass' = [pass EXCEPT ![p].pc = "recreateWrite",
                          ![p].newMetadata = [id |-> nextTaskId,
                                              checksum |-> pass[p].currentChecksum]]
            /\ obs' = [obs EXCEPT ![p].creates = @ + 1, ![p].item.creates = @ + 1,
                                  ![p].item.createdId = nextTaskId]
       ELSE /\ pass' = [pass EXCEPT ![p] = Returned(@, "error")]
            /\ obs' = [obs EXCEPT ![p].creates = @ + 1, ![p].item.creates = @ + 1,
                                  ![p].item.failed = TRUE]
            /\ UNCHANGED <<tasks, nextTaskId>>
  /\ UNCHANGED <<reminders, lines, listExists, quiet, changes>>
  /\ UNCHANGED serviceVars

\* step 3: the new comment is added; a failure makes the item an error
RecreateWrite(p) ==
  /\ pass[p].pc = "recreateWrite"
  /\ \E ioOk \in Answers : Failing(~ioOk) /\
       LET i == pass[p].idx
           r == updateReminderCommentInFile(lines[i], pass[p].newMetadata, ioOk)
       IN  /\ lines' = [lines EXCEPT ![i] = r.line]
           /\ pass' = [pass EXCEPT ![p] =
                         Returned(@, IF r.ok THEN "recreated" ELSE "error")]
           /\ obs' = [obs EXCEPT ![p].writes = @ + (IF r.wrote THEN 1 ELSE 0),
                                 ![p].item.writes = @ + (IF r.wrote THEN 1 ELSE 0),
                                 ![p].item.wroteMeta = r.ok,
                                 ![p].item.failed = ~r.ok]
  /\ UNCHANGED <<reminders, tasks, nextTaskId, listExists, quiet, changes>>
  /\ UNCHANGED serviceVars

\* the outcome of the item as an observer names it
OutcomeOf(resultStatus) ==
  IF resultStatus \in {"created", "updated", "recreated", "completedLocally", "skipped"}
  THEN resultStatus ELSE "error"

\* the switch on resultStatus; then the next reminder or, after the last
\* one, the summary notice
Tally(p) ==
  /\ pass[p].pc = "tally"
  /\ LET counted == [pass[p] EXCEPT !.counts = CountStatus(@, pass[p].resultStatus)]
         last == pass[p].idx >= NumItems
         outcome == OutcomeOf(pass[p].resultStatus)
     IN  /\ pass' = [pass EXCEPT ![p] = AfterItem(counted)]
         /\ obs' = [obs EXCEPT ![p].tally[outcome] = @ + 1,
                               ![p].processed = @ + 1,
                               ![p].item = NoItemObs,
                               ![p].ended = IF last THEN "complete" ELSE @,
                               ![p].summaries = IF last THEN @ + 1 ELSE @]
         /\ quiet' = IF last THEN counted.counts.error = 0 ELSE quiet
  /\ UNCHANGED <<reminders, lines, tasks, nextTaskId, listExists, changes, failures>>
  /\ UNCHANGED serviceVars

(* --------------------------- the environment -------------------------- *)

\* the two reminders differ in exactly one field
OneFieldApart(r, q) ==
  Cardinality({f \in {"title", "time", "done"} : r[f] # q[f]}) = 1

\* the user edits one field of a reminder (title, time or checkbox); the
\* reminder store follows the document
EditReminder(i) ==
  /\ PassesIdle /\ changes < MaxChanges
  /\ \E r \in ReminderValues :
       /\ OneFieldApart(r, reminders[i])
       /\ reminders' = [reminders EXCEPT ![i] = r]
       /\ lines' = [lines EXCEPT ![i].box = IF r.done THEN "done" ELSE "open"]
  /\ quiet' = FALSE
  /\ changes' = changes + 1
  /\ UNCHANGED <<tasks, nextTaskId, listExists, pass, obs, failures>>
  /\ UNCHANGED serviceVars

\* the task is completed on the remote side
RemoteComplete(id) ==
  /\ PassesIdle /\ changes < MaxChanges
  /\ tasks[id].status = "needsAction"
  /\ tasks' = [tasks EXCEPT ![id].status = "completed"]
  /\ quiet' = FALSE
  /\ changes' = changes + 1
  /\ UNCHANGED <<reminders, lines, nextTaskId, listExists, pass, obs, failures>>
  /\ UNCHANGED serviceVars

\* the task is purged on the remote side: fetching it gives 404
RemoteDelete(id) ==
  /\ PassesIdle /\ changes < MaxChanges
  /\ tasks[id].status # "absent"
  /\ tasks' = [tasks EXCEPT ![id] = NoTask]
  /\ quiet' = FALSE
  /\ changes' = changes + 1
  /\ UNCHANGED <<reminders, lines, nextTaskId, listExists, pass, obs, failures>>
  /\ UNCHANGED serviceVars

\* the task is flagged deleted on the remote side: it is still fetched
RemoteTrash(id) ==
  /\ PassesIdle /\ changes < MaxChanges
  /\ tasks[id].status # "absent" /\ ~tasks[id].deleted
  /\ tasks' = [tasks EXCEPT ![id].deleted = TRUE]
  /\ quiet' = FALSE
  /\ changes' = changes + 1
  /\ UNCHANGED <<reminders, lines, nextTaskId, listExists, pass, obs, failures>>
  /\ UNCHANGED serviceVars

\* the user damages the comment of a line by hand
CorruptComment(i) ==
  /\ PassesIdle /\ changes < MaxChanges
  /\ lines[i].blocks # <<>> /\ lines[i].blocks # <<BadBlock>>
  /\ lines' = [lines EXCEPT ![i].blocks = <<BadBlock>>]
  /\ quiet' = FALSE
  /\ changes' = changes + 1
  /\ UNCHANGED <<reminders, tasks, nextTaskId, listExists, pass, obs, failures>>
  /\ UNCHANGED serviceVars

\* a list with the configured name appears on the remote side
RemoteCreateList ==
  /\ PassesIdle
  /\ ~listExists
  /\ listExists' = TRUE
  /\ UNCHANGED <<reminders, lines, tasks, nextTaskId, pass, obs, quiet, changes, failures>>
  /\ UNCHANGED serviceVars

(* --------------------------- specification ---------------------------- *)

\* one invocation at a time: the sync command, or the periodic driver
PassStep(p) ==
  \/ SyncStart(p)
  \/ ResolveList(p)
  \/ FetchActive(p)
  \/ ReadLine(p)
  \/ CreateTask(p)
  \/ CreateWrite(p)
  \/ UpdateTask(p)
  \/ UpdateWrite(p)
  \/ GetTask(p)
  \/ CompleteLocal(p)
  \/ RecreateRemove(p)
  \/ RecreateCreate(p)
  \/ RecreateWrite(p)
  \/ Tally(p)

Environment ==
  \/ \E i \in Items : EditReminder(i)
  \/ \E i \in Items : CorruptComment(i)
  \/ \E id \in TaskIds : RemoteComplete(id)
  \/ \E id \in TaskIds : RemoteDelete(id)
  \/ \E id \in TaskIds : RemoteTrash(id)
  \/ RemoteCreateList

Next == PassStep("A") \/ Environment

Spec == Init /\ [][Next]_vars

(* --------------------------- authorization ---------------------------- *)

\* no periodic driver, nothing drawn
OthersAtRest ==
  /\ worker = << >>
  /\ sample = << >>

\* the document and the store with nothing to synchronise, no pass running
SyncAtRest ==
  /\ reminders = [i \in Items |-> [title |-> S_a, time |-> NoTime, done |-> FALSE]]
  /\ lines = [i \in Items |-> [box |-> "open", blocks |-> <<>>]]
  /\ tasks = [id \in TaskIds |-> NoTask]
  /\ nextTaskId = 1
  /\ listExists = TRUE
  /\ pass = [p \in PassIds |-> IdlePass]
  /\ obs = [p \in PassIds |-> FreshObs]
  /\ quiet = FALSE
  /\ changes = 0
  /\ failures = 0

\* the next GoogleAuthServer to be constructed
UnmadeServers == {n \in ServerIds : ~servers[n].made}

NextServer == CHOOSE n \in UnmadeServers : \A m \in UnmadeServers : n <= m

\* updateRedirectUri as flow n starts: the URI for the port configured then
\* (the port may be changed between flows and while a flow waits)
RedirectUriOf(n) == MaxFlows + n

\* a guard that lets every call through
neverInProgress == FALSE

\* the guard of authorize
AlreadyInProgress == authInProgress

\* GoogleAuthServer.stop on a server record: close() on a live server (its
\* callback comes later), else the rejection of the code promise
stop(srv) ==
  IF srv.server = "set"
    THEN [srv EXCEPT !.bound = FALSE, !.closing = TRUE]
    ELSE [srv EXCEPT !.promise = IF @ = "pending" THEN "rejected" ELSE @]

\* authenticateWithGoogleTasks around authorize: the notice when authorize
\* returns, the dialog when it throws
authenticateWithGoogleTasks(threw) ==
  IF threw THEN "failedModal" ELSE "successNotice"

\* the state an invocation leaves behind, recorded as it ends
AtEnd(s, outcome, srvs, flag, store, own) ==
  [s EXCEPT !.outcome = outcome,
            !.shown = authenticateWithGoogleTasks(outcome = "threw"),
            !.listenerAtEnd = own # 0 /\ (srvs[own].bound \/ srvs[own].server = "set"),
            !.flagAtEnd = flag,
            !.verifierAtEnd = store.verifier,
            !.redirectAtEnd = store.redirect]

\* authorize while a flow is in progress: returns at once
AuthorizeNoop(c) ==
  /\ caller[c].pc = "idle"
  /\ AlreadyInProgress
  /\ seen' = [seen EXCEPT ![c] =
       [FreshSeen EXCEPT !.outcome = "noop",
                         !.shown = authenticateWithGoogleTasks(FALSE)]]
  /\ UNCHANGED <<syncVars, otherVars, procVars, tokenVars, authInProgress, authServer, codeVerifier, servers,
                 caller>>

\* authorize, up to the await of generateCodeChallenge
AuthorizeStart(c) ==
  /\ caller[c].pc = "idle"
  /\ ~AlreadyInProgress
  /\ UnmadeServers # {}
  /\ authInProgress' = TRUE
  /\ storage' = [storage EXCEPT !.redirect = RedirectUriOf(NextServer)]
  /\ codeVerifier' = NextServer
  /\ caller' = [caller EXCEPT ![c] =
       [IdleCaller EXCEPT !.pc = "challenge",
                          !.currentRedirectUri = RedirectUriOf(NextServer),
                          !.codeChallenge = NextServer]]
  /\ seen' = [seen EXCEPT ![c] = [FreshSeen EXCEPT !.verifiers = 1, !.writes = 1]]
  /\ UNCHANGED <<syncVars, otherVars, procVars, tokenData, now, authServer, servers>>

\* the challenge is ready: the listener is constructed and started; when it
\* starts, the verifier is stored, the browser opened and the code awaited
StartListener(c) ==
  /\ caller[c].pc = "challenge"
  /\ UnmadeServers # {}
  /\ LET n == NextServer IN
     \E result \in {"listening", "unbound", "threw"} :
       /\ authServer' = n
       /\ servers' = [servers EXCEPT ![n] =
            [NoServer EXCEPT !.made = TRUE, !.promise = "pending",
                             !.server = IF result = "threw" THEN "null" ELSE "set",
                             !.bound = (result = "listening")]]
       /\ IF result = "threw"
            THEN /\ caller' = [caller EXCEPT ![c].pc = "catch", ![c].own = n]
                 /\ seen' = seen
                 /\ storage' = storage
            ELSE /\ caller' = [caller EXCEPT ![c].pc = "waitCode", ![c].own = n,
                                             ![c].awaited = n]
                 /\ seen' = [seen EXCEPT ![c].listeners = @ + 1, ![c].opens = @ + 1,
                                         ![c].writes = @ + 1]
                 /\ storage' = [storage EXCEPT !.verifier = codeVerifier]
  /\ UNCHANGED <<syncVars, otherVars, procVars, tokenData, now, authInProgress, codeVerifier>>

\* a listener that answers every path as the callback path
handleAnyPath(srv, kind) ==
  IF kind = "code"
    THEN [page |-> "confirmation",
          listener |-> [srv EXCEPT !.promise = IF @ = "pending" THEN "resolved" ELSE @,
                                   !.timers = @ + 1]]
    ELSE [page |-> "failure",
          listener |-> [srv EXCEPT !.promise = IF @ = "pending" THEN "rejected" ELSE @]]

\* the request handler of the listener: the callback path with a code, the
\* callback path without one, any other path.  The page goes to the browser.
handleRequest(srv, kind) ==
  CASE kind = "code" ->
         [page |-> "confirmation",
          listener |-> [srv EXCEPT !.promise = IF @ = "pending" THEN "resolved" ELSE @,
                                   !.timers = @ + 1]]
    [] kind = "nocode" ->
         [page |-> "failure",
          listener |-> [srv EXCEPT !.promise = IF @ = "pending" THEN "rejected" ELSE @]]
    [] OTHER ->
         [page |-> "notFound", listener |-> srv]

\* the browser requests a page of the listener
Callback(n) ==
  /\ servers[n].bound
  /\ servers[n].requests < MaxRequests
  /\ \E kind \in {"code", "nocode", "other"} :
       servers' = [servers EXCEPT ![n] =
         [handleRequest(@, kind).listener EXCEPT !.requests = @ + 1]]
  /\ UNCHANGED <<syncVars, otherVars, procVars, tokenVars, authInProgress, authServer, codeVerifier, caller,
                 seen>>

\* the shutdown scheduled by a callback with a code
TimerFires(n) ==
  /\ servers[n].timers > 0
  /\ servers' = [servers EXCEPT ![n] = [stop(@) EXCEPT !.timers = @ - 1]]
  /\ UNCHANGED <<syncVars, otherVars, procVars, tokenVars, authInProgress, authServer, codeVerifier, caller,
                 seen>>

\* the callbacks of close()
ServerClosed(n) ==
  /\ servers[n].closing
  /\ servers' = [servers EXCEPT ![n].closing = FALSE, ![n].server = "null"]
  /\ UNCHANGED <<syncVars, otherVars, procVars, tokenVars, authInProgress, authServer, codeVerifier, caller,
                 seen>>

\* the code promise rejects
WaitRejected(c) ==
  /\ caller[c].pc = "waitCode"
  /\ servers[caller[c].awaited].promise = "rejected"
  /\ caller' = [caller EXCEPT ![c].pc = "catch"]
  /\ UNCHANGED <<syncVars, otherVars, procVars, tokenVars, authInProgress, authServer, codeVerifier, servers,
                 seen>>

\* an exchange that sends the redirect URI of the port first configured, not
\* the saved one
paramsWithFirstRedirect(store) ==
  [code_verifier |-> store.verifier, redirect_uri |-> RedirectUriOf(1)]

\* exchangeCodeForTokens: the two parameters read from localStorage
exchangeParams(store) ==
  [code_verifier |-> store.verifier, redirect_uri |-> store.redirect]

\* the code promise resolves: exchangeCodeForTokens up to its fetch
ExchangeStart(c) ==
  /\ caller[c].pc = "waitCode"
  /\ servers[caller[c].awaited].promise = "resolved"
  /\ IF storage.verifier = 0 \/ storage.redirect = 0
       THEN /\ caller' = [caller EXCEPT ![c].pc = "catch"]
            /\ seen' = [seen EXCEPT ![c].exchange = "failed"]
       ELSE /\ caller' = [caller EXCEPT ![c].pc = "exchange",
                                        ![c].authCode = caller[c].awaited,
                                        ![c].code_verifier =
                                          exchangeParams(storage).code_verifier,
                                        ![c].redirect_uri =
                                          exchangeParams(storage).redirect_uri]
            /\ seen' = seen
  /\ UNCHANGED <<syncVars, otherVars, procVars, tokenVars, authInProgress, authServer, codeVerifier, servers>>

\* the token endpoint answers: on success the tokens are kept and saved, the
\* two records removed and the listener stopped
ExchangeResponse(c) ==
  /\ caller[c].pc = "exchange"
  /\ \E ok \in BOOLEAN, life \in Lifetimes :
       IF ok
         THEN LET token == [held |-> TRUE, access_token |-> caller[c].authCode,
                            refresh_token |-> caller[c].authCode,
                            expires_at |-> now + life]
              IN /\ tokenData' = token
                 /\ storage' = [token |-> token, verifier |-> 0, redirect |-> 0]
                 /\ seen' = [seen EXCEPT ![c].exchange = "ok"]
                 /\ IF authServer = 0
                      THEN /\ caller' = [caller EXCEPT ![c].pc = "catch"]
                           /\ servers' = servers
                      ELSE /\ caller' = [caller EXCEPT ![c].pc = "stopping",
                                                       ![c].awaited = authServer]
                           /\ servers' = [servers EXCEPT ![authServer] = stop(@)]
         ELSE /\ caller' = [caller EXCEPT ![c].pc = "catch"]
              /\ seen' = [seen EXCEPT ![c].exchange = "failed"]
              /\ UNCHANGED <<tokenData, storage, servers>>
  /\ UNCHANGED <<syncVars, otherVars, procVars, now, authInProgress, authServer, codeVerifier>>

\* the listener has stopped: the end of the try block
FinishReturn(c) ==
  /\ caller[c].pc = "stopping"
  /\ servers[caller[c].awaited].server = "null"
  /\ authServer' = 0
  /\ authInProgress' = FALSE
  /\ caller' = [caller EXCEPT ![c] = IdleCaller]
  /\ seen' = [seen EXCEPT ![c] =
       AtEnd(@, "returned", servers, FALSE, storage, caller[c].own)]
  /\ UNCHANGED <<syncVars, otherVars, procVars, tokenVars, codeVerifier, servers>>

\* a catch block that leaves the listener alone
catchWithoutStop(c) ==
  /\ caller[c].pc = "catch"
  /\ authInProgress' = FALSE
  /\ caller' = [caller EXCEPT ![c] = IdleCaller]
  /\ seen' = [seen EXCEPT ![c] =
       AtEnd(@, "threw", servers, FALSE, storage, caller[c].own)]
  /\ UNCHANGED <<syncVars, otherVars, procVars, tokenVars, authServer, codeVerifier, servers>>

\* the catch block, up to the await of stop()
CatchStop(c) ==
  /\ caller[c].pc = "catch"
  /\ IF authServer # 0
       THEN /\ servers' = [servers EXCEPT ![authServer] = stop(@)]
            /\ caller' = [caller EXCEPT ![c].pc = "catchStopping",
                                        ![c].awaited = authServer]
            /\ UNCHANGED <<authInProgress, seen>>
       ELSE /\ authInProgress' = FALSE
            /\ caller' = [caller EXCEPT ![c] = IdleCaller]
            /\ seen' = [seen EXCEPT ![c] =
                 AtEnd(@, "threw", servers, FALSE, storage, caller[c].own)]
            /\ servers' = servers
  /\ UNCHANGED <<syncVars, otherVars, procVars, tokenVars, authServer, codeVerifier>>

\* the listener has stopped: the end of the catch block, the error rethrown
FinishThrow(c) ==
  /\ caller[c].pc = "catchStopping"
  /\ servers[caller[c].awaited].server = "null"
  /\ authServer' = 0
  /\ authInProgress' = FALSE
  /\ caller' = [caller EXCEPT ![c] = IdleCaller]
  /\ seen' = [seen EXCEPT ![c] =
       AtEnd(@, "threw", servers, FALSE, storage, caller[c].own)]
  /\ UNCHANGED <<syncVars, otherVars, procVars, tokenVars, codeVerifier, servers>>

\* faulty variant of ClearTokenData: only the token record is removed
clearTokenRecordOnly ==
  /\ tokenData' = NoToken
  /\ storage' = [storage EXCEPT !.token = NoToken]
  /\ UNCHANGED <<syncVars, otherVars, now, authVars, procVars>>

\* clearTokenData
ClearTokenData ==
  /\ tokenData' = NoToken
  /\ storage' = EmptyStorage
  /\ UNCHANGED <<syncVars, otherVars, now, authVars, procVars>>

\* the service as constructed, nothing in localStorage
AuthInit ==
  /\ SyncAtRest
  /\ OthersAtRest
  /\ AuthAtRest
  /\ ProcAtRest
  /\ tokenData = NoToken
  /\ storage = EmptyStorage
  /\ now = 0

AuthNext ==
  \/ \E c \in Callers :
       \/ AuthorizeNoop(c)
       \/ AuthorizeStart(c)
       \/ StartListener(c)
       \/ WaitRejected(c)
       \/ ExchangeStart(c)
       \/ ExchangeResponse(c)
       \/ FinishReturn(c)
       \/ CatchStop(c)
       \/ FinishThrow(c)
  \/ \E n \in ServerIds :
       \/ Callback(n)
       \/ TimerFires(n)
       \/ ServerClosed(n)
  \/ ClearTokenData

AuthSpec == AuthInit /\ [][AuthNext]_vars

(* ------------------------------- tokens ------------------------------- *)

\* access tokens the token endpoint hands out by refresh
MaxTokens == 1

\* steps of the clock, of BufferMs each
MaxTicks == 1

\* an expiry test without the safety buffer
expiredWithoutBuffer(td, t) ==
  IF ~td.held \/ td.expires_at = 0 THEN TRUE ELSE td.expires_at <= t

\* isTokenExpired, at time t
isTokenExpired(td, t) ==
  IF ~td.held \/ td.expires_at = 0 THEN TRUE ELSE td.expires_at <= t + BufferMs

\* isAuthenticated, at time t
isAuthenticated(td, t) == td.held /\ ~isTokenExpired(td, t)

\* saveTokenData
saveTokenData(td, st) == IF td.held THEN [st EXCEPT !.token = td] ELSE st

\* loadTokenData
loadTokenData(td, st) == IF st.token.held THEN st.token ELSE td

\* the refresh token of the response, whatever it is
takeResponseToken(new, old) == new

\* data.refresh_token || this.tokenData.refresh_token
MergeRefreshToken(new, old) == IF new # 0 THEN new ELSE old

\* refreshToken, the response is ok: the new token data is kept and saved;
\* reading the previous refresh token of no token data throws
RefreshSucceeded(td, st, resp, t) ==
  IF resp.refresh_token = 0 /\ ~td.held
    THEN [tokenData |-> td, storage |-> st, error |-> "refresh_failed"]
    ELSE LET new == [held |-> TRUE,
                     access_token |-> resp.access_token,
                     refresh_token |-> MergeRefreshToken(resp.refresh_token,
                                                         td.refresh_token),
                     expires_at |-> t + resp.life]
         IN [tokenData |-> new, storage |-> saveTokenData(new, st), error |-> "null"]

\* a failed refresh that clears nothing
failWithoutClear(td, st, error) ==
  [tokenData |-> td, storage |-> st, error |-> error]

\* refreshToken, the response is not ok or the request failed: invalid_grant
\* clears the token data, and the error is thrown
RefreshFailed(td, st, error) ==
  IF error = "invalid_grant"
    THEN [tokenData |-> NoToken, storage |-> EmptyStorage, error |-> error]
    ELSE [tokenData |-> td, storage |-> st, error |-> error]

\* the ways a refresh request in flight can end, with what refreshToken
\* leaves behind and the refresh token the response carried
RefreshResults ==
  {[state |-> RefreshSucceeded(tokenData, storage,
                               [access_token |-> nextToken, refresh_token |-> rt,
                                life |-> life], now),
    responseToken |-> rt] :
      rt \in IF nextToken <= MaxTokens + 1 THEN {0, nextToken} ELSE {},
      life \in Lifetimes \ {0}}
  \cup
  {[state |-> RefreshFailed(tokenData, storage, error), responseToken |-> 0] :
      error \in {"invalid_grant", "refresh_failed"}}

\* what is seen of a refresh as refreshToken ends
Refreshed(log, r) ==
  [log EXCEPT !.result = r.state.error,
              !.memKept = r.state.tokenData = tokenData,
              !.storeKept = r.state.storage.token = storage.token,
              !.allCleared = r.state.tokenData = NoToken /\ r.state.storage = EmptyStorage,
              !.merged = r.state.error = "null" /\ r.responseToken = 0,
              !.refreshFailed = @ \/ r.state.error # "null",
              !.pending = IF r.state.error = "null" THEN r.state.tokenData.access_token
                          ELSE @]

\* what is seen of a refresh that refreshToken refuses for want of a refresh token
Refused(log) ==
  [log EXCEPT !.result = "no_refresh_token", !.memKept = TRUE, !.storeKept = TRUE,
              !.refreshFailed = TRUE]

\* the token endpoint after a refresh
RefreshCounted(r) ==
  nextToken' = IF r.state.error = "null" THEN nextToken + 1 ELSE nextToken

\* a refresh request is sent
Refreshing(q) ==
  [q EXCEPT !.pc = "refreshing", !.log.refreshes = @ + 1]

\* an invocation ends: its locals are gone, what has been seen of it stays
Ended(q, outcome, thrown) ==
  [IdleProc EXCEPT !.outcome = outcome, !.thrown = thrown, !.log = q.log]

\* initialize ends, leaving token data td at time t
Initialized(q, td, t) ==
  [IdleProc EXCEPT !.outcome = "returned",
                   !.log = [q.log EXCEPT !.heldAtEnd = td.held,
                                         !.authAtEnd = isAuthenticated(td, t)]]

\* a catch block that keeps the token data
keepTokenData(td) == td

\* the catch block of initialize
InitializeCatch(td) == NoToken

\* initialize, up to the await of refreshToken
Initialize ==
  /\ proc["init"].pc = "idle"
  /\ LET td == loadTokenData(tokenData, storage)
         q == IdleProc
     IN IF td.held /\ isTokenExpired(td, now)
          THEN IF td.refresh_token = 0
                 THEN /\ tokenData' = InitializeCatch(td)
                      /\ proc' = [proc EXCEPT !["init"] =
                           Initialized([q EXCEPT !.log = Refused(@)],
                                       InitializeCatch(td), now)]
                 ELSE /\ tokenData' = td
                      /\ proc' = [proc EXCEPT !["init"] = Refreshing(q)]
          ELSE /\ tokenData' = td
               /\ proc' = [proc EXCEPT !["init"] = Initialized(q, td, now)]
  /\ UNCHANGED <<syncVars, otherVars, authVars, storage, now, nextToken>>

\* the refresh of initialize ends
InitializeRefreshed ==
  /\ proc["init"].pc = "refreshing"
  /\ \E r \in RefreshResults :
       LET td == IF r.state.error = "null" THEN r.state.tokenData
                 ELSE InitializeCatch(r.state.tokenData)
           q == [proc["init"] EXCEPT !.log = Refreshed(@, r)]
       IN /\ tokenData' = td
          /\ storage' = r.state.storage
          /\ proc' = [proc EXCEPT !["init"] = Initialized(q, td, now)]
          /\ RefreshCounted(r)
  /\ UNCHANGED <<syncVars, otherVars, authVars, now>>

\* refreshGoogleTasksToken, up to the await of refreshToken
ManualRefresh ==
  /\ proc["cmd"].pc = "idle"
  /\ LET q == IdleProc
     IN proc' = [proc EXCEPT !["cmd"] =
          IF ~isAuthenticated(tokenData, now)
            THEN Ended(q, "unauthenticated", "null")
            ELSE IF tokenData.refresh_token = 0
                   THEN Ended([q EXCEPT !.log = Refused(@)], "threw", "no_refresh_token")
                   ELSE Refreshing(q)]
  /\ UNCHANGED <<syncVars, otherVars, authVars, tokenVars, nextToken>>

\* the refresh of the command ends
ManualRefreshed ==
  /\ proc["cmd"].pc = "refreshing"
  /\ \E r \in RefreshResults :
       LET q == [proc["cmd"] EXCEPT !.log = Refreshed(@, r)]
       IN /\ tokenData' = r.state.tokenData
          /\ storage' = r.state.storage
          /\ proc' = [proc EXCEPT !["cmd"] =
               IF r.state.error = "null"
                 THEN Ended(q, "returned", "null")
                 ELSE Ended(q, "threw", r.state.error)]
          /\ RefreshCounted(r)
  /\ UNCHANGED <<syncVars, otherVars, authVars, now>>

(* ------------------------------ the retry ----------------------------- *)

\* requestFn: the request is issued with the access token held at that time
Issue(q, td) ==
  LET bearer == IF td.held THEN td.access_token ELSE 0
  IN [q EXCEPT !.pc = "request", !.bearer = bearer, !.requests = @ + 1,
               !.log.afterFailure = @ \/ q.log.refreshFailed,
               !.log.stale = @ \/ (q.log.pending # 0 /\ q.log.pending # bearer),
               !.log.pending = 0]

\* the loop is left: throw lastError
Exhausted(q) ==
  Ended([q EXCEPT !.log.exhausted = TRUE], "threw", q.lastError)

\* faulty variant of Continue: the loop runs while attempt <= maxRetries + 1
continueOnceMore(q, td) ==
  IF q.attempt < maxRetries + 1
    THEN Issue([q EXCEPT !.attempt = @ + 1], td)
    ELSE Exhausted(q)

\* continue: the next attempt, if there is one
Continue(q, td) ==
  IF q.attempt < maxRetries
    THEN Issue([q EXCEPT !.attempt = @ + 1], td)
    ELSE Exhausted(q)

\* the bodies of a non-2xx response: JSON with error.message, text that is
\* not JSON
Bodies == {"structured", "text"}

\* the try block of the !response.ok branch: JSON.parse(errorText) throws a
\* SyntaxError, or the block throws the Error it has built from
\* errorJson.error?.message || JSON.stringify(errorJson)
ParseAndThrow(body) ==
  IF body = "text" THEN [threw |-> TRUE, detail |-> "SyntaxError"]
  ELSE [threw |-> TRUE, detail |-> IF body = "structured" THEN "message" ELSE "json"]

\* the !response.ok branch: what the error it throws carries.  Its catch
\* takes whatever the try block has thrown and throws an Error built from
\* errorText.
apiErrorDetail(body) ==
  LET tried == ParseAndThrow(body)
  IN IF tried.threw THEN "raw" ELSE tried.detail

\* a non-2xx response other than 429 and 401 has been received
ApiFailed(q, body) ==
  [q EXCEPT !.log.body = body, !.log.detail = apiErrorDetail(body)]

\* the values of the Retry-After header of a 429 response: none, "5"
RetryAfters == {NoRetryAfter, <<53>>}

\* the number that is not a number
NaN == -1

\* the value of the decimal digits str[1..n]
RECURSIVE DigitsValue(_, _)
DigitsValue(str, n) ==
  IF n = 0 THEN 0 ELSE DigitsValue(str, n - 1) * 10 + (str[n] - 48)

\* the number of decimal digits str starts with, from position i on
RECURSIVE LeadingDigits(_, _)
LeadingDigits(str, i) ==
  IF i <= Len(str) /\ str[i] >= 48 /\ str[i] <= 57 THEN 1 + LeadingDigits(str, i + 1) ELSE 0

\* parseInt(str, 10) of a string without sign and leading white space
parseInt(str) ==
  LET n == LeadingDigits(str, 1)
  IN IF n = 0 THEN NaN ELSE DigitsValue(str, n)

\* x * 1000
Times1000(x) == IF x = NaN THEN NaN ELSE x * 1000

\* faulty variant of waitTime: the header is not looked at
delayOnly(retryAfter, retryDelay) == retryDelay

\* const waitTime = retryAfter ? parseInt(retryAfter, 10) * 1000 : retryDelay
waitTime(retryAfter, retryDelay) ==
  IF retryAfter # <<>> THEN Times1000(parseInt(retryAfter)) ELSE retryDelay

\* setTimeout(resolve, ms): the time after which resolve is called, at the
\* earliest
setTimeout(ms) == IF ms = NaN \/ ms < 0 THEN 0 ELSE ms

\* the wait of the invocation is over
Waited(q) ==
  [q EXCEPT !.retryAfter = NoRetryAfter, !.timer = 0, !.waits = @ + 1]

\* the catch block of the loop: the error is kept and, unless this was the
\* last attempt, the next attempt waits for retryDelay
Caught(q, error) ==
  LET k == [q EXCEPT !.lastError = error, !.log.lastSeen = error,
                     !.log.body = IF error = "api" THEN @ ELSE "none",
                     !.log.detail = IF error = "api" THEN @ ELSE "none"]
  IN IF q.attempt < maxRetries
       THEN [k EXCEPT !.pc = "backoff", !.timer = setTimeout(q.retryDelay)]
       ELSE Exhausted(k)

\* getTasks, getTask, createTask, updateTask: the guard, then
\* executeWithRetry up to the await of its first request
OperationStart ==
  /\ proc["op"].pc = "idle"
  /\ proc' = [proc EXCEPT !["op"] =
       IF ~isAuthenticated(tokenData, now)
         THEN Ended(IdleProc, "threw", "not_authenticated")
         ELSE Issue(IdleProc, tokenData)]
  /\ UNCHANGED <<syncVars, otherVars, authVars, tokenVars, nextToken>>

\* the request of an attempt ends: a response, or the fetch fails
OperationResponse ==
  /\ proc["op"].pc = "request"
  /\ \E answer \in {"ok", "429", "401", "api", "network"}, retryAfter \in RetryAfters,
        body \in Bodies :
       LET q == proc["op"]
       IN /\ answer # "429" => retryAfter = NoRetryAfter
          /\ answer # "api" => body = "text"
          /\ proc' = [proc EXCEPT !["op"] =
            CASE answer = "ok" -> Ended(q, "returned", "null")
              [] answer = "429" ->
                   [q EXCEPT !.pc = "wait429", !.retryAfter = retryAfter,
                             !.timer = setTimeout(waitTime(retryAfter, q.retryDelay)),
                             !.log.lastSeen = "429"]
              [] answer = "401" ->
                   IF ~tokenData.held \/ tokenData.refresh_token = 0
                     THEN Caught([q EXCEPT !.log = Refused(@)], "no_refresh_token")
                     ELSE Refreshing([q EXCEPT !.log.lastSeen = "401"])
              [] answer = "api" -> Caught(ApiFailed(q, body), "api")
              [] OTHER -> Caught(q, answer)]
  /\ UNCHANGED <<syncVars, otherVars, authVars, tokenVars, nextToken>>

\* the timer of the wait after a 429 fires: retryDelay *= 2; continue
RateLimitWaited ==
  /\ proc["op"].pc = "wait429"
  /\ proc' = [proc EXCEPT !["op"] =
       Continue([Waited(proc["op"]) EXCEPT !.retryDelay = @ * 2], tokenData)]
  /\ UNCHANGED <<syncVars, otherVars, authVars, tokenVars, nextToken>>

\* the timer of the catch block fires: retryDelay *= 2, and the loop goes on
BackoffWaited ==
  /\ proc["op"].pc = "backoff"
  /\ proc' = [proc EXCEPT !["op"] =
       Continue([Waited(proc["op"]) EXCEPT !.retryDelay = @ * 2], tokenData)]
  /\ UNCHANGED <<syncVars, otherVars, authVars, tokenVars, nextToken>>

\* the refresh of the 401 handler ends
OperationRefreshed ==
  /\ proc["op"].pc = "refreshing"
  /\ \E r \in RefreshResults :
       LET q == [proc["op"] EXCEPT !.log = Refreshed(@, r)]
       IN /\ tokenData' = r.state.tokenData
          /\ storage' = r.state.storage
          /\ proc' = [proc EXCEPT !["op"] =
               IF r.state.error = "null"
                 THEN Continue(q, r.state.tokenData)
                 ELSE Caught(q, r.state.error)]
          /\ RefreshCounted(r)
  /\ UNCHANGED <<syncVars, otherVars, authVars, now>>

\* time passes
Tick ==
  /\ now < MaxTicks * BufferMs
  /\ now' = now + BufferMs
  /\ UNCHANGED <<syncVars, otherVars, authVars, procVars, tokenData, storage>>

\* the token record a previous session left in localStorage
StoredTokens ==
  {[held |-> TRUE, access_token |-> 1, refresh_token |-> rt, expires_at |-> life] :
     rt \in {0, 1}, life \in Lifetimes}

\* the service as constructed, with the token record of a previous session
TokenInit ==
  /\ SyncAtRest
  /\ OthersAtRest
  /\ AuthAtRest
  /\ ProcAtRest
  /\ tokenData = NoToken
  /\ \E token \in StoredTokens : storage = [EmptyStorage EXCEPT !.token = token]
  /\ now = 0

TokenNext ==
  \/ Initialize
  \/ InitializeRefreshed
  \/ ManualRefresh
  \/ ManualRefreshed
  \/ ClearTokenData
  \/ Tick

\* initialize and the refresh command as time passes
TokenSpec == TokenInit /\ [][TokenNext]_vars

\* the service as constructed, the previous session having left a token
\* record with a refresh token, not yet expired
RefreshInit ==
  /\ SyncAtRest
  /\ OthersAtRest
  /\ AuthAtRest
  /\ ProcAtRest
  /\ tokenData = NoToken
  /\ storage = [EmptyStorage EXCEPT !.token =
       [held |-> TRUE, access_token |-> 1, refresh_token |-> 1,
        expires_at |-> 2 * BufferMs]]
  /\ now = 0

RefreshNext ==
  \/ Initialize
  \/ InitializeRefreshed
  \/ ManualRefresh
  \/ ManualRefreshed
  \/ OperationStart
  \/ OperationResponse
  \/ RateLimitWaited
  \/ BackoffWaited
  \/ OperationRefreshed
  \/ ClearTokenData

\* initialize, the refresh command and an API operation, interleaved
RefreshSpec == RefreshInit /\ [][RefreshNext]_vars

\* the service after initialize has loaded the token record of the previous
\* session, which has a refresh token and is not expired
RetryInit ==
  /\ SyncAtRest
  /\ OthersAtRest
  /\ AuthAtRest
  /\ ProcAtRest
  /\ tokenData = [held |-> TRUE, access_token |-> 1, refresh_token |-> 1,
                  expires_at |-> 2 * BufferMs]
  /\ storage = [EmptyStorage EXCEPT !.token = tokenData]
  /\ now = 0

RetryNext ==
  \/ OperationStart
  \/ OperationResponse
  \/ RateLimitWaited
  \/ BackoffWaited
  \/ OperationRefreshed
  \/ Tick

\* every request that is awaited settles and every timer that is set fires
RetryFairness ==
  /\ WF_vars(OperationResponse)
  /\ WF_vars(RateLimitWaited)
  /\ WF_vars(BackoffWaited)
  /\ WF_vars(OperationRefreshed)

\* API operations one after the other as time passes, each awaited thing
\* settling
RetrySpec == RetryInit /\ [][RetryNext]_vars /\ RetryFairness

(* ------------------------- the periodic driver ------------------------ *)

\* timer ticks of the interval in one behaviour
MaxIntervals == 6

\* the NotificationWorker as constructed: startPeriodicTask has not run, no
\* invocation of periodicTask is in flight, nothing has been seen
NewWorker ==
  [started |-> FALSE, intervalTaskRunning |-> FALSE, running |-> 0,
   ticks |-> 0, skipped |-> 0, invoked |-> 0, failed |-> 0]

\* intervalTaskRunning = true; this.periodicTask()
Invoke(w) ==
  [w EXCEPT !.intervalTaskRunning = TRUE, !.running = @ + 1, !.invoked = @ + 1]

\* faulty variant of Settled: the flag is cleared by .then, on success only
clearOnSuccessOnly(w, ok) ==
  [w EXCEPT !.running = @ - 1, !.failed = IF ok THEN @ ELSE @ + 1,
            !.intervalTaskRunning = IF ok THEN FALSE ELSE @]

\* the promise of periodicTask settles and its .finally callback runs
Settled(w, ok) ==
  [w EXCEPT !.running = @ - 1, !.failed = IF ok THEN @ ELSE @ + 1,
            !.intervalTaskRunning = FALSE]

\* startPeriodicTask: the first invocation, and the interval is registered
StartPeriodicTask ==
  /\ ~worker.started
  /\ worker' = Invoke([worker EXCEPT !.started = TRUE])
  /\ UNCHANGED <<syncVars, tokenVars, authVars, procVars, sample>>

\* the callback of setInterval
IntervalFires ==
  /\ worker.started
  /\ worker.ticks < MaxIntervals
  /\ LET w == [worker EXCEPT !.ticks = @ + 1]
     IN worker' = IF w.intervalTaskRunning
                    THEN [w EXCEPT !.skipped = @ + 1]
                    ELSE Invoke(w)
  /\ UNCHANGED <<syncVars, tokenVars, authVars, procVars, sample>>

\* an invocation of periodicTask ends, normally or with an error
PeriodicTaskSettles ==
  /\ worker.running > 0
  /\ \E ok \in BOOLEAN : worker' = Settled(worker, ok)
  /\ UNCHANGED <<syncVars, tokenVars, authVars, procVars, sample>>

\* the plugin as loaded, before startPeriodicTask
DriverInit ==
  /\ SyncAtRest
  /\ AuthAtRest
  /\ ProcAtRest
  /\ tokenData = NoToken
  /\ storage = EmptyStorage
  /\ now = 0
  /\ worker = NewWorker
  /\ sample = << >>

DriverNext ==
  \/ StartPeriodicTask
  \/ IntervalFires
  \/ PeriodicTaskSettles

\* the periodic driver
DriverSpec == DriverInit /\ [][DriverNext]_vars

(* ------------------------ the codec on the text ----------------------- *)

\* The reconciliation above keeps a line as the sequence of its comment
\* blocks.  Here the two functions of the codec are modelled on the text of
\* the line, character by character: the regular expression
\* /<!--\s*gtask:.*?\s*-->/, JSON.stringify of the metadata and JSON.parse of
\* the content of the comment.  White space is the space character; the
\* JSON texts of the model have no white space between their tokens and no
\* escapes but \" and \\; metadata here is [present, id, checksum] with the id
\* and the checksum as strings.

\* "<!--"
S_open == <<60, 33, 45, 45>>
\* "gtask:"
S_gtask == <<103, 116, 97, 115, 107, 58>>
\* "-->"
S_close == <<45, 45, 62>>
\* " <!-- gtask:"
S_commentStart == <<32, 60, 33, 45, 45, 32, 103, 116, 97, 115, 107, 58>>
\* " -->"
S_commentEnd == <<32, 45, 45, 62>>
\* "id"
S_idKey == <<105, 100>>
\* "checksum"
S_checksumKey == <<99, 104, 101, 99, 107, 115, 117, 109>>
\* "{"id":"
S_jsonId == <<123, 34, 105, 100, 34, 58>>
\* ","checksum":"
S_jsonChecksum == <<44, 34, 99, 104, 101, 99, 107, 115, 117, 109, 34, 58>>
\* "}"
S_jsonEnd == <<125>>

\* x
T_plain == <<120>>
\* x <!-- gtask:{"id":"a","checksum":"1f"} -->
T_block == <<120, 32, 60, 33, 45, 45, 32, 103, 116, 97, 115, 107, 58, 123, 34, 105, 100, 34,
  58, 34, 97, 34, 44, 34, 99, 104, 101, 99, 107, 115, 117, 109, 34, 58, 34, 49, 102, 34, 125,
  32, 45, 45, 62>>
\* x <!--gtask:{"id":"a","checksum":"1f"}-->  
T_tight == <<120, 32, 60, 33, 45, 45, 103, 116, 97, 115, 107, 58, 123, 34, 105, 100, 34, 58,
  34, 97, 34, 44, 34, 99, 104, 101, 99, 107, 115, 117, 109, 34, 58, 34, 49, 102, 34, 125, 45,
  45, 62, 32, 32>>
\* x <!-- gtask:[1] -->
T_array == <<120, 32, 60, 33, 45, 45, 32, 103, 116, 97, 115, 107, 58, 91, 49, 93, 32, 45, 45, 62>>
\* x <!-- gtask:{oops} -->
T_unparsable == <<120, 32, 60, 33, 45, 45, 32, 103, 116, 97, 115, 107, 58, 123, 111, 111, 112,
  115, 125, 32, 45, 45, 62>>
\* x <!-- gtask:{"id":7,"checksum":"1f"} -->
T_numberId == <<120, 32, 60, 33, 45, 45, 32, 103, 116, 97, 115, 107, 58, 123, 34, 105, 100, 34,
  58, 55, 44, 34, 99, 104, 101, 99, 107, 115, 117, 109, 34, 58, 34, 49, 102, 34, 125, 32, 45,
  45, 62>>
\* x <!-- gtask:{"id":"a"} -->
T_noChecksum == <<120, 32, 60, 33, 45, 45, 32, 103, 116, 97, 115, 107, 58, 123, 34, 105, 100,
  34, 58, 34, 97, 34, 125, 32, 45, 45, 62>>
\* x <!-- gtask:  -->
T_empty == <<120, 32, 60, 33, 45, 45, 32, 103, 116, 97, 115, 107, 58, 32, 32, 45, 45, 62>>
\* x <!-- gtask:{"id":"a","checksum":"1f"} --> <!-- gtask:{"id":"b","checksum":"-2"} -->
T_twoBlocks == <<120, 32, 60, 33, 45, 45, 32, 103, 116, 97, 115, 107, 58, 123, 34, 105, 100,
  34, 58, 34, 97, 34, 44, 34, 99, 104, 101, 99, 107, 115, 117, 109, 34, 58, 34, 49, 102, 34,
  125, 32, 45, 45, 62, 32, 60, 33, 45, 45, 32, 103, 116, 97, 115, 107, 58, 123, 34, 105, 100,
  34, 58, 34, 98, 34, 44, 34, 99, 104, 101, 99, 107, 115, 117, 109, 34, 58, 34, 45, 50, 34,
  125, 32, 45, 45, 62>>
\* x <!-- gtask:
T_unclosed == <<120, 32, 60, 33, 45, 45, 32, 103, 116, 97, 115, 107, 58>>

\* the lines the codec is applied to
Texts ==
  {T_plain, T_block, T_tight, T_array, T_unparsable,
   T_numberId, T_noChecksum, T_empty, T_twoBlocks, T_unclosed}

\* the ids and checksums of the metadata the codec is applied to: a, q" and
\* 1f, -2
MetaIds == {<<97>>, <<113, 34>>}
MetaChecksums == {<<49, 102>>, <<45, 50>>}

\* `null` metadata
NullMeta == [present |-> FALSE, id |-> <<>>, checksum |-> <<>>]

Metas == [present : {TRUE}, id : MetaIds, checksum : MetaChecksums]

\* str has pat at position i
HasAt(str, pat, i) ==
  i + Len(pat) - 1 <= Len(str) /\ SubSeq(str, i, i + Len(pat) - 1) = pat

\* \s* from position i: the position after the white space
RECURSIVE SkipSpaces(_, _)
SkipSpaces(str, i) ==
  IF i <= Len(str) /\ str[i] = SPACE THEN SkipSpaces(str, i + 1) ELSE i

\* <!--\s*gtask: at position i: the position after it, or 0
OpenerAt(str, i) ==
  IF ~HasAt(str, S_open, i) THEN 0
  ELSE LET j == SkipSpaces(str, i + Len(S_open))
       IN IF HasAt(str, S_gtask, j) THEN j + Len(S_gtask) ELSE 0

\* .*?\s*--> from position k: the first position from which \s*--> matches
\* (the position after what .*? has taken), or 0
RECURSIVE CloserFrom(_, _)
CloserFrom(str, k) ==
  IF k > Len(str) THEN 0
  ELSE IF HasAt(str, S_close, SkipSpaces(str, k)) THEN k
  ELSE CloserFrom(str, k + 1)

NoMatch == [found |-> FALSE, start |-> 0, group |-> <<>>, end |-> 0]

\* the match of /<!--\s*gtask:(.*?)\s*-->/ that starts at position i
MatchAt(str, i) ==
  LET from == OpenerAt(str, i)
      to == IF from = 0 THEN 0 ELSE CloserFrom(str, from)
  IN IF to = 0 THEN NoMatch
     ELSE [found |-> TRUE, start |-> i, group |-> SubSeq(str, from, to - 1),
           end |-> SkipSpaces(str, to) + Len(S_close)]

\* the first match at or after position i
RECURSIVE FirstMatch(_, _)
FirstMatch(str, i) ==
  IF i > Len(str) THEN NoMatch
  ELSE LET m == MatchAt(str, i)
       IN IF m.found THEN m ELSE FirstMatch(str, i + 1)

\* str.replace(/<!--\s*gtask:.*?\s*-->/g, ""), from position i on
RECURSIVE replaceAll(_, _)
replaceAll(str, i) ==
  LET m == FirstMatch(str, i)
  IN IF ~m.found THEN SubSeq(str, i, Len(str))
     ELSE SubSeq(str, i, m.start - 1) \o replaceAll(str, m.end)

\* the number of matches of the expression in str, from position i on
RECURSIVE CountMatches(_, _)
CountMatches(str, i) ==
  LET m == FirstMatch(str, i)
  IN IF ~m.found THEN 0 ELSE 1 + CountMatches(str, m.end)

\* JSON.stringify of a string: quoted, with " and \ escaped
RECURSIVE Escaped(_)
Escaped(str) ==
  IF str = <<>> THEN <<>>
  ELSE (IF Head(str) \in {34, 92} THEN <<92, Head(str)>> ELSE <<Head(str)>>)
         \o Escaped(Tail(str))

Quoted(str) == <<34>> \o Escaped(str) \o <<34>>

\* JSON.stringify(metadata)
JSONstringify(metadata) ==
  S_jsonId \o Quoted(metadata.id) \o S_jsonChecksum \o Quoted(metadata.checksum)
    \o S_jsonEnd

\* a JSON value that was not read, and a text that is not JSON
Undefined == [type |-> "undefined", value |-> <<>>]
SyntaxError == [ok |-> FALSE, value |-> Undefined, next |-> 0]

\* the rest of a JSON string, the opening quote having been read
RECURSIVE StringRest(_, _, _)
StringRest(str, i, acc) ==
  IF i > Len(str) THEN SyntaxError
  ELSE IF str[i] = 34
    THEN [ok |-> TRUE, value |-> [type |-> "string", value |-> acc], next |-> i + 1]
  ELSE IF str[i] = 92
    THEN IF i < Len(str) /\ str[i + 1] \in {34, 92}
           THEN StringRest(str, i + 2, Append(acc, str[i + 1]))
           ELSE SyntaxError
  ELSE StringRest(str, i + 1, Append(acc, str[i]))

\* a JSON value at position i: a string or a number without sign
ValueAt(str, i) ==
  IF i > Len(str) THEN SyntaxError
  ELSE IF str[i] = 34 THEN StringRest(str, i + 1, <<>>)
  ELSE LET n == LeadingDigits(str, i)
       IN IF n = 0 THEN SyntaxError
          ELSE [ok |-> TRUE, next |-> i + n,
                value |-> [type |-> "number", value |-> SubSeq(str, i, i + n - 1)]]

\* the members of a JSON object from position i on, up to the closing brace
\* that ends the text; obj is what has been read of parsed.id and
\* parsed.checksum
RECURSIVE MembersFrom(_, _, _)
MembersFrom(str, i, obj) ==
  LET key == IF i <= Len(str) /\ str[i] = 34 THEN StringRest(str, i + 1, <<>>)
             ELSE SyntaxError
      val == IF key.ok /\ key.next <= Len(str) /\ str[key.next] = 58
               THEN ValueAt(str, key.next + 1) ELSE SyntaxError
      read == IF ~val.ok THEN obj
              ELSE IF key.value.value = S_idKey THEN [obj EXCEPT !.id = val.value]
              ELSE IF key.value.value = S_checksumKey THEN [obj EXCEPT !.checksum = val.value]
              ELSE obj
  IN IF ~val.ok \/ val.next > Len(str) THEN [ok |-> FALSE, parsed |-> obj]
     ELSE IF str[val.next] = 44 THEN MembersFrom(str, val.next + 1, read)
     ELSE IF str[val.next] = 125 /\ val.next = Len(str) THEN [ok |-> TRUE, parsed |-> read]
     ELSE [ok |-> FALSE, parsed |-> obj]

\* JSON.parse of a text that starts with { and ends with }
JSONparse(str) ==
  LET empty == [id |-> Undefined, checksum |-> Undefined]
  IN IF Len(str) = 2 THEN [ok |-> TRUE, parsed |-> empty]
     ELSE MembersFrom(str, 2, empty)

\* updateMarkdownLineWithMetadata on the text of the line
updateMarkdownLineWithMetadataText(originalLine, metadata) ==
  LET lineWithoutComment == trimEnd(replaceAll(originalLine, 1))
  IN IF ~metadata.present THEN lineWithoutComment
     ELSE lineWithoutComment \o S_commentStart \o JSONstringify(metadata) \o S_commentEnd

\* extractGoogleTaskMetadata on the text of the line
extractGoogleTaskMetadataText(reminderLine) ==
  LET match == FirstMatch(reminderLine, 1)
      metadataString == trim(match.group)
      json == JSONparse(metadataString)
  IN IF ~match.found \/ match.group = <<>> THEN NullMeta
     ELSE IF metadataString = <<>> \/ Head(metadataString) # 123
               \/ metadataString[Len(metadataString)] # 125 THEN NullMeta
     ELSE IF ~json.ok THEN NullMeta
     ELSE IF json.parsed.id.type = "string" /\ json.parsed.checksum.type = "string"
       THEN [present |-> TRUE, id |-> json.parsed.id.value,
             checksum |-> json.parsed.checksum.value]
     ELSE NullMeta

\* a line has been drawn; nothing has been encoded onto it or decoded from
\* it yet.  encoded is <<metadata>> once metadata has been encoded onto the
\* line, decoded is <<result>> once the line as it is has been decoded.
Drawn(text) ==
  [original |-> text, line |-> text, encoded |-> <<>>, decoded |-> <<>>]

\* updateMarkdownLineWithMetadata is applied to the line
EncodeLine ==
  /\ \E metadata \in Metas \cup {NullMeta} :
       sample' = [sample EXCEPT
                    !.line = updateMarkdownLineWithMetadataText(sample.line, metadata),
                    !.encoded = <<metadata>>, !.decoded = <<>>]
  /\ UNCHANGED <<syncVars, tokenVars, authVars, procVars, worker>>

\* extractGoogleTaskMetadata is applied to the line
DecodeLine ==
  /\ sample.decoded = <<>>
  /\ sample' = [sample EXCEPT !.decoded = <<extractGoogleTaskMetadataText(sample.line)>>]
  /\ UNCHANGED <<syncVars, tokenVars, authVars, procVars, worker>>

\* a line of a document
CodecInit ==
  /\ SyncAtRest
  /\ AuthAtRest
  /\ ProcAtRest
  /\ tokenData = NoToken
  /\ storage = EmptyStorage
  /\ now = 0
  /\ worker = << >>
  /\ \E text \in Texts : sample = Drawn(text)

CodecNext ==
  \/ EncodeLine
  \/ DecodeLine

\* the codec applied to a line again and again
CodecSpec == CodecInit /\ [][CodecNext]_vars

(* --------------------------- the checksum alone ----------------------- *)

\* "Aa", "BB" and " a"
S_Aa == <<65, 97>>
S_BB == <<66, 66>>
S_padded == <<32, 97>>

\* the reminders the checksum is applied to
SampleTitles == {S_a, S_b, S_padded, S_Aa, S_BB}
SampleReminders == [title : SampleTitles, time : Times, done : BOOLEAN]

\* generateReminderChecksum is applied to the first, to the second reminder
ChecksumFirst ==
  /\ sample.sums[1] = <<>>
  /\ sample' = [sample EXCEPT !.sums[1] = <<generateReminderChecksum(sample.first)>>]
  /\ UNCHANGED <<syncVars, tokenVars, authVars, procVars, worker>>

ChecksumSecond ==
  /\ sample.sums[2] = <<>>
  /\ sample' = [sample EXCEPT !.sums[2] = <<generateReminderChecksum(sample.second)>>]
  /\ UNCHANGED <<syncVars, tokenVars, authVars, procVars, worker>>

\* two reminders of the store
ChecksumInit ==
  /\ SyncAtRest
  /\ AuthAtRest
  /\ ProcAtRest
  /\ tokenData = NoToken
  /\ storage = EmptyStorage
  /\ now = 0
  /\ worker = << >>
  /\ \E first, second \in SampleReminders :
       sample = [first |-> first, second |-> second, sums |-> << <<>>, <<>> >>]

ChecksumNext ==
  \/ ChecksumFirst
  \/ ChecksumSecond

\* the checksum applied to two reminders
ChecksumSpec == ChecksumInit /\ [][ChecksumNext]_vars

(* ------------------------- overlapping passes ------------------------- *)

\* the sync command is run once more while a pass is in flight:
\* syncGoogleTasks has no guard against a second invocation, the two
\* interleave at their awaits
\* each invocation of the command runs once
OverlapNext ==
  \/ \E p \in PassIds :
       \/ obs[p] = FreshObs /\ SyncStart(p)
       \/ ResolveList(p)
       \/ FetchActive(p)
       \/ ReadLine(p)
       \/ CreateTask(p)
       \/ CreateWrite(p)
       \/ UpdateTask(p)
       \/ UpdateWrite(p)
       \/ GetTask(p)
       \/ CompleteLocal(p)
       \/ RecreateRemove(p)
       \/ RecreateCreate(p)
       \/ RecreateWrite(p)
       \/ Tally(p)
  \/ Environment

\* open reminders; the first reminder was never synced, the others were
\* linked by an earlier pass; no remote call and no document operation fails
OverlapInit ==
  /\ reminders = [i \in Items |-> [title |-> S_a, time |-> NoTime, done |-> FALSE]]
  /\ lines = [i \in Items |->
                [box |-> "open",
                 blocks |-> IF i = 1 THEN <<>>
                            ELSE <<Block([id |-> i - 1,
                                          checksum |-> checksumOf[reminders[i]]])>>]]
  /\ tasks = [id \in TaskIds |->
                IF id < NumItems
                THEN InsertedTask(convertObsidianToGoogleTask(reminders[id + 1], id + 1))
                ELSE NoTask]
  /\ nextTaskId = NumItems
  /\ listExists \in BOOLEAN
  /\ pass = [p \in PassIds |-> IdlePass]
  /\ obs = [p \in PassIds |-> FreshObs]
  /\ quiet = FALSE
  /\ changes = 0
  /\ failures = MaxFailures
  /\ ServiceAtRest

OverlapSpec == OverlapInit /\ [][OverlapNext]_vars

(* -------------------------- the listener alone ------------------------ *)

\* a GoogleAuthServer after start(): the code promise pending, the server
\* listening
StartedServer ==
  [NoServer EXCEPT !.made = TRUE, !.promise = "pending", !.server = "set",
                   !.bound = TRUE]

\* the browser requests a page of listener n; the response is observed
Request(n) ==
  /\ servers[n].bound
  /\ servers[n].requests < MaxRequests
  /\ \E kind \in {"code", "nocode", "other"} :
       /\ servers' = [servers EXCEPT ![n] =
            [handleRequest(@, kind).listener EXCEPT !.requests = @ + 1]]
       /\ sample' = [listener |-> n, request |-> kind,
                     page |-> handleRequest(servers[n], kind).page]
  /\ UNCHANGED <<syncVars, tokenVars, procVars, worker, authInProgress, authServer,
                 codeVerifier, caller, seen>>

\* the owner of listener n calls stop()
StopListener(n) ==
  /\ servers' = [servers EXCEPT ![n] = stop(@)]
  /\ UNCHANGED <<syncVars, otherVars, procVars, tokenVars, authInProgress, authServer,
                 codeVerifier, caller, seen>>

\* listeners that have been started, no request received yet
ListenerInit ==
  /\ SyncAtRest
  /\ ProcAtRest
  /\ tokenData = NoToken
  /\ storage = EmptyStorage
  /\ now = 0
  /\ authInProgress = FALSE
  /\ authServer = 0
  /\ codeVerifier = 0
  /\ servers = [n \in ServerIds |-> StartedServer]
  /\ caller = [c \in Callers |-> IdleCaller]
  /\ seen = [c \in Callers |-> FreshSeen]
  /\ worker = << >>
  /\ sample = [listener |-> 0, request |-> "none", page |-> "none"]

ListenerNext ==
  \E n \in ServerIds :
    \/ Request(n)
    \/ TimerFires(n)
    \/ ServerClosed(n)
    \/ StopListener(n)

\* the callback listeners, their requests, shutdown timers and stops
ListenerSpec == ListenerInit /\ [][ListenerNext]_vars

(* ------------------------------- claims ------------------------------- *)

\* the item at hand of invocation p has been handled and is about to be counted
Handled(p) == pass[p].pc = "tally"

\* ... and its line was read and carried metadata
Linked(p) == Handled(p) /\ pass[p].existingMetadata # NoMeta

\* the checksum and the task input of reminder i as they are now
ChecksumNow(i) == checksumOf[reminders[i]]
InputNow(i) == convertObsidianToGoogleTask(reminders[i], i)

\* C1 (as claimed): an invocation that starts after a pass which reported zero
\* errors, nothing having changed since locally or remotely, makes no remote
\* create and no remote update and counts no item as created, updated or
\* recreated.
C1_SecondPassIdle ==
  \A p \in PassIds :
    obs[p].afterQuiet =>
      /\ obs[p].creates = 0 /\ obs[p].updates = 0
      /\ obs[p].tally.created = 0 /\ obs[p].tally.updated = 0
      /\ obs[p].tally.recreated = 0

\* C2 (as claimed): an item whose processing failed (a remote call, the read
\* of its line or a write to its line) is counted as an error, and a pass that
\* reaches its summary has processed every item.
C2_FailureCountedAsError ==
  \A p \in PassIds :
    /\ Handled(p) /\ obs[p].item.failed => pass[p].resultStatus = "error"
    /\ obs[p].ended = "complete" => obs[p].processed = NumItems

\* C3: when the list lookup or the fetch of the active tasks fails (or the
\* list is not found), the invocation is over, no item has been processed, no
\* remote create or update and no document write has been made, one error
\* notice and no summary has been shown.
C3_SetupFailureAborts ==
  \A p \in PassIds :
    obs[p].ended \in {"setupError", "noList"} =>
      /\ pass[p].pc = "idle"
      /\ obs[p].processed = 0 /\ obs[p].item = NoItemObs
      /\ obs[p].creates = 0 /\ obs[p].updates = 0 /\ obs[p].writes = 0
      /\ obs[p].errorNotices = 1 /\ obs[p].summaries = 0

C3_Witness ==
  \E p \in PassIds :
    /\ obs[p].ended = "setupError" /\ obs[p].errorNotices = 1
    /\ \E i \in Items : extractGoogleTaskMetadata(lines[i]) = NoMeta

\* C4 (as claimed): an invocation that finds no list with the configured name
\* creates it and goes on: it does not end on the missing list, and the list
\* exists from then on.
C4_ListCreatedWhenAbsent ==
  \A p \in PassIds :
    obs[p].listAbsent => listExists /\ obs[p].ended # "noList"

\* C5: an item whose line is read and carries no metadata gets exactly one
\* remote create and no update; when the create fails the item is an error
\* and its line is as it was; when the create returns a task, that task is
\* the reminder's task input, and the write that follows, going through,
\* leaves the line with the one block {id of the created task, checksum of
\* the reminder}.
C5_CreateWhenUnlinked ==
  \A p \in PassIds :
    ( /\ Handled(p) /\ obs[p].item.branch # "unread"
      /\ extractGoogleTaskMetadata(obs[p].item.lineBefore) = NoMeta )
    => LET i == pass[p].idx
           it == obs[p].item
       IN  /\ it.creates = 1 /\ it.updates = 0
           /\ it.createdId = 0 =>
                pass[p].resultStatus = "error" /\ lines[i] = it.lineBefore
           /\ it.createdId # 0 =>
                /\ tasks[it.createdId] = InsertedTask(InputNow(i))
                /\ lines[i].box = it.lineBefore.box
                /\ it.wroteMeta =>
                     lines[i].blocks =
                       <<Block([id |-> it.createdId, checksum |-> ChecksumNow(i)])>>
                /\ ~it.wroteMeta => lines[i] = it.lineBefore

C5_Witness ==
  \E p \in PassIds :
    /\ Handled(p) /\ obs[p].item.branch # "unread"
    /\ extractGoogleTaskMetadata(obs[p].item.lineBefore) = NoMeta
    /\ obs[p].item.createdId # 0 /\ obs[p].item.wroteMeta
    /\ extractGoogleTaskMetadata(lines[pass[p].idx]).id = obs[p].item.createdId

\* C6: an item whose metadata id is in the snapshot of active tasks is
\* skipped, with no remote call and no document write, exactly when the
\* stored checksum equals the current one; otherwise one update is sent for
\* that id and, the update and the write going through, the task carries the
\* reminder's task input and the line the one block {same id, current
\* checksum}.  No remote create is made either way.
C6_ActiveLinkSkipOrUpdate ==
  \A p \in PassIds :
    ( Linked(p) /\ pass[p].existingMetadata.id \in pass[p].activeIds )
    => LET i == pass[p].idx
           it == obs[p].item
           old == pass[p].existingMetadata
           status == pass[p].resultStatus
       IN  /\ it.creates = 0
           /\ old.checksum = ChecksumNow(i) =>
                /\ status = "skipped"
                /\ it.updates = 0 /\ it.writes = 0 /\ lines[i] = it.lineBefore
           /\ old.checksum # ChecksumNow(i) =>
                /\ status \in {"updated", "error"}
                /\ it.updates = 1
                /\ status = "updated" =>
                     tasks[old.id] = PatchedTask(tasks[old.id], InputNow(i))
                /\ it.wroteMeta =>
                     lines[i].blocks =
                       <<Block([id |-> old.id, checksum |-> ChecksumNow(i)])>>
                /\ ~it.wroteMeta => lines[i] = it.lineBefore

C6_Witness ==
  \E p \in PassIds :
    /\ Linked(p) /\ pass[p].existingMetadata.id \in pass[p].activeIds
    /\ pass[p].existingMetadata.checksum # ChecksumNow(pass[p].idx)
    /\ pass[p].resultStatus = "updated" /\ obs[p].item.wroteMeta
    /\ obs[p].tally.skipped > 0

\* C7: an item whose metadata id is not in the snapshot and whose direct
\* fetch answers 404, or a task that is not completed, is recreated: one
\* remote create (no update) is made; the created task is a new one carrying
\* the reminder's task input; the item counts as recreated exactly when the
\* create and the write of the new comment went through, and the line then
\* carries the one block {new id, current checksum}.
C7_StaleLinkRecreate ==
  \A p \in PassIds :
    ( /\ Linked(p) /\ pass[p].existingMetadata.id \notin pass[p].activeIds
      /\ obs[p].item.fetch \in {"e404", "other"} )
    => LET i == pass[p].idx
           it == obs[p].item
           old == pass[p].existingMetadata
           status == pass[p].resultStatus
       IN  /\ it.creates = 1 /\ it.updates = 0
           /\ status \in {"recreated", "error"}
           /\ status = "recreated" <=> (it.createdId # 0 /\ it.wroteMeta)
           /\ it.createdId # 0 =>
                /\ it.createdId # old.id
                /\ tasks[it.createdId] = InsertedTask(InputNow(i))
           /\ status = "recreated" =>
                lines[i].blocks =
                  <<Block([id |-> it.createdId, checksum |-> ChecksumNow(i)])>>

C7_Witness ==
  \E p \in PassIds :
    /\ Linked(p) /\ pass[p].existingMetadata.id \notin pass[p].activeIds
    /\ obs[p].item.fetch = "e404"
    /\ pass[p].resultStatus = "recreated"
    /\ extractGoogleTaskMetadata(lines[pass[p].idx]).id = obs[p].item.createdId

\* the direct fetch of the item at hand answered a completed task
FetchedCompleted(p) ==
  /\ Linked(p) /\ pass[p].existingMetadata.id \notin pass[p].activeIds
  /\ obs[p].item.fetch = "completed"

C9_AtMostOneBlock ==
  \A i \in Items : Len(lines[i].blocks) <= 1

C9_Witness ==
  \E p \in PassIds :
    /\ Handled(p) /\ pass[p].resultStatus = "recreated"
    /\ obs[p].item.lineBefore.blocks # <<>>
    /\ Len(lines[pass[p].idx].blocks) = 1
    /\ lines[pass[p].idx].blocks # obs[p].item.lineBefore.blocks
    /\ failures > 0

\* the numbers of the summary notice
Summary(counts) ==
  <<counts.created, counts.updated, counts.completedLocally, counts.skipped,
    counts.error>>

\* C10 (as claimed): the summary of a completed pass gives, for each
\* outcome, the number of items that had it, the recreated items having a
\* count of their own: the created count is the number of created items.
C10_SixSeparateCounts ==
  \A p \in PassIds :
    obs[p].ended = "complete" =>
      /\ pass[p].counts.created = obs[p].tally.created
      /\ pass[p].counts.updated = obs[p].tally.updated
      /\ pass[p].counts.completedLocally = obs[p].tally.completedLocally
      /\ pass[p].counts.skipped = obs[p].tally.skipped
      /\ pass[p].counts.error = obs[p].tally.error

\* C10 (amended): the summary of a completed pass gives five numbers:
\* created together with recreated, updated, completed locally, skipped
\* (the items whose line could not be read included) and errors.  Every item
\* is counted in exactly one of them: each number is the number of items
\* with that result, and the five add up to the number of items.
C10_FiveCountsPartition ==
  \A p \in PassIds :
    obs[p].ended = "complete" =>
      /\ Summary(pass[p].counts) =
           << obs[p].tally.created + obs[p].tally.recreated,
              obs[p].tally.updated, obs[p].tally.completedLocally,
              obs[p].tally.skipped, obs[p].tally.error >>
      /\ pass[p].counts.created + pass[p].counts.updated
           + pass[p].counts.completedLocally + pass[p].counts.skipped
           + pass[p].counts.error = NumItems
      /\ obs[p].processed = NumItems /\ obs[p].summaries = 1

C10_Witness ==
  \E p \in PassIds :
    /\ obs[p].ended = "complete"
    /\ obs[p].tally.recreated > 0
    /\ pass[p].counts.created = obs[p].tally.recreated

\* invocations of authorize past the guard and not yet ended
InFlight == {c \in Callers : caller[c].pc # "idle"}

\* listeners that hold the port or have not finished closing
LiveListeners == {n \in ServerIds : servers[n].bound \/ servers[n].server = "set"}

\* C11: authorize is single-flight. At any time at most one invocation is in
\* flight and at most one callback listener is live, and an invocation that
\* found a flow in progress has started no listener, generated no verifier,
\* opened no browser and written nothing to storage.
C11_SingleFlight ==
  /\ Cardinality(InFlight) <= 1
  /\ Cardinality(LiveListeners) <= 1
  /\ \A c \in Callers :
       seen[c].outcome = "noop" =>
         /\ seen[c].listeners = 0
         /\ seen[c].verifiers = 0
         /\ seen[c].opens = 0
         /\ seen[c].writes = 0

\* one invocation waits for the code on a bound listener while another
\* invocation has returned at once
C11_Witness ==
  \E c, d \in Callers :
    /\ c # d
    /\ caller[c].pc = "waitCode"
    /\ servers[caller[c].own].bound
    /\ seen[d].outcome = "noop"

\* invocations of authorize that started a listener and have ended
EndedWithListener ==
  {c \in Callers : seen[c].outcome \in {"returned", "threw"} /\ seen[c].listeners = 1}

\* C12: when an invocation of authorize that started a callback listener
\* ends, by returning or by throwing, its listener has been stopped and the
\* in-progress flag is cleared; while no flow is in progress no listener is
\* live, so a later invocation passes the guard and can bind the port.
C12_ListenerStoppedAtEnd ==
  /\ \A c \in EndedWithListener : ~seen[c].listenerAtEnd /\ ~seen[c].flagAtEnd
  /\ ~authInProgress => LiveListeners = {}

\* one invocation has returned after a successful exchange and another has
\* thrown after starting its listener, and a new flow can start
C12_Witness ==
  /\ \E c, d \in EndedWithListener :
       /\ seen[c].outcome = "returned"
       /\ seen[d].outcome = "threw"
  /\ ~authInProgress

\* C13: the code verifier and the redirect URI are removed from storage when
\* the token exchange completes, whether it succeeded or failed: once an
\* invocation of authorize has ended, neither record is left in storage.
C13_TransientRecordsCleared ==
  \A c \in Callers :
    seen[c].outcome \in {"returned", "threw"} =>
      /\ seen[c].verifierAtEnd = 0
      /\ seen[c].redirectAtEnd = 0

\* C14: isAuthenticated is true exactly when token data is held and its
\* expiry lies more than the 300000 ms buffer after the current time; with
\* no token data, or an expiry that is missing or zero, it is false. Checked
\* on the token data in memory and on the token record in storage, at every
\* time the clock reaches.
C14_AuthenticatedIffBeyondBuffer ==
  \A td \in {tokenData, storage.token} :
    /\ isAuthenticated(td, now) <=> (td.held /\ td.expires_at > now + BufferMs)
    /\ ~td.held \/ td.expires_at = 0 => ~isAuthenticated(td, now)

\* the refresh command has found the service unauthenticated while token
\* data was held whose expiry is exactly the buffer away
C14_Witness ==
  /\ tokenData.held
  /\ tokenData.expires_at = now + BufferMs
  /\ now > 0
  /\ proc["cmd"].outcome = "unauthenticated"

\* the errors of a refresh other than invalid_grant
OtherRefreshErrors == {"refresh_failed", "no_refresh_token"}

\* C15: when the token endpoint rejects a refresh with invalid_grant,
\* refreshToken leaves no token data in memory and none of the three records
\* in storage, and raises; when a refresh fails in any other way,
\* refreshToken leaves the token data in memory and the token record in
\* storage as they were, and raises. refreshAccessToken passes the error on
\* to its caller.
C15_InvalidGrantClearsOthersKeep ==
  /\ \A p \in Procs :
       /\ proc[p].log.result = "invalid_grant" => proc[p].log.allCleared
       /\ proc[p].log.result \in OtherRefreshErrors =>
            proc[p].log.memKept /\ proc[p].log.storeKept
  /\ proc["cmd"].log.result \in OtherRefreshErrors \cup {"invalid_grant"} =>
       proc["cmd"].outcome = "threw" /\ proc["cmd"].thrown = proc["cmd"].log.result

\* the refresh of the command has failed without invalid_grant and thrown,
\* and a later refresh has been rejected with invalid_grant
C15_Witness ==
  /\ proc["cmd"].log.result = "refresh_failed"
  /\ proc["cmd"].outcome = "threw"
  /\ proc["init"].log.result = "invalid_grant"
  /\ tokenData = NoToken
  /\ storage = EmptyStorage

\* C16: initialize loads the token record and, when the loaded token data is
\* expired or expires within the buffer, calls refreshToken once, sending at
\* most one refresh request; when that refresh fails, initialize ends with no
\* token data in memory and isAuthenticated false, without a second attempt,
\* and initialize never throws.
C16_InitializeRefreshesOnce ==
  LET q == proc["init"]
  IN /\ q.outcome # "threw"
     /\ q.log.refreshes <= 1
     /\ q.outcome = "returned" =>
          /\ q.log.result = "none" => (q.log.heldAtEnd => q.log.authAtEnd)
          /\ q.log.result = "null" => q.log.refreshes = 1
          /\ q.log.refreshFailed => ~q.log.heldAtEnd /\ ~q.log.authAtEnd

\* initialize has returned after its one refresh request failed: no token
\* data in memory, the token record still in storage
C16_Witness ==
  /\ proc["init"].outcome = "returned"
  /\ proc["init"].log.result = "refresh_failed"
  /\ proc["init"].log.refreshes = 1
  /\ tokenData = NoToken
  /\ storage.token.held

\* invocations with a refresh request in flight
RefreshesInFlight == {p \in Procs : proc[p].pc = "refreshing"}

\* C17: token refresh is single-flight: whatever the interleaving of
\* initialize, the refresh command and the 401 handler of an API operation,
\* at most one refresh request to the token endpoint is in flight.
C17_RefreshSingleFlight == Cardinality(RefreshesInFlight) <= 1

\* a step in which the refresh of invocation p ends with a response that
\* carried no refresh token
MergedBy(p) ==
  /\ proc[p].pc = "refreshing"
  /\ proc'[p].pc # "refreshing"
  /\ proc'[p].log.merged

\* C18: once the token record in storage holds a refresh token, every step of
\* initialize, of a refresh and of an API operation leaves a refresh token in
\* it; the only steps that remove it are those that clear the token state
\* (clearTokenData, or a refresh rejected with invalid_grant). A successful
\* refresh whose response carries no refresh token stores the previous one.
C18_RefreshTokenPersists ==
  [][/\ storage.token.refresh_token # 0 =>
          \/ storage'.token.refresh_token # 0
          \/ storage' = EmptyStorage /\ tokenData' = NoToken
     /\ \A p \in Procs :
          MergedBy(p) =>
            /\ tokenData.refresh_token # 0
            /\ tokenData'.refresh_token = tokenData.refresh_token
            /\ storage'.token.refresh_token = tokenData.refresh_token]_vars

\* a refresh whose response carried no refresh token has stored a new access
\* token next to the refresh token of the previous session
C18_Witness ==
  /\ \E p \in Procs : proc[p].log.merged
  /\ storage.token.refresh_token = 1
  /\ storage.token.access_token # 1

\* C19: in executeWithRetry a 401 response makes the wrapper refresh the
\* token and issue the request again with the access token that refresh
\* produced; a refresh that fails ends the call, which throws the error of
\* the refresh to its caller without issuing another request.
C19_UnauthorizedRefreshThenReissue ==
  LET q == proc["op"]
  IN /\ q.log.refreshFailed =>
          /\ q.pc = "idle"
          /\ q.outcome = "threw"
          /\ q.thrown = q.log.result
          /\ ~q.log.afterFailure
     /\ ~q.log.stale
     /\ q.pc = "idle" => q.log.pending = 0

\* C20: when executeWithRetry has used up its attempts, whatever the
\* responses were, it throws the last error it encountered: the error it
\* throws is an error, and it is the one of the last failed attempt.
C20_ExhaustionRaisesLastError ==
  LET q == proc["op"]
  IN q.log.exhausted =>
       /\ q.outcome = "threw"
       /\ q.thrown # "null"
       /\ q.thrown = q.log.lastSeen


\* the seconds a Retry-After header of the model stands for
SecondsOf(header) == CASE header = <<48>> -> 0 [] header = <<53>> -> 5

\* the wait that is due after the 429 response invocation q has received:
\* the seconds of its Retry-After header, or 1 s doubled with every wait of
\* the invocation that is over
WaitDue(q) ==
  IF q.retryAfter # NoRetryAfter THEN SecondsOf(q.retryAfter) * 1000
  ELSE InitialDelayMs * 2 ^ q.waits

\* C21: after a 429 response the operation does not issue its next attempt
\* before a timer has fired, and the delay of that timer is at least the
\* Retry-After seconds of the response when it has the header, and otherwise
\* at least 1 s doubled with every retry made so far.
C21_RateLimitWait ==
  LET q == proc["op"]
  IN /\ q.pc = "wait429" => q.timer >= WaitDue(q)
     /\ q.retryAfter # NoRetryAfter => q.pc = "wait429"

C21_Witness ==
  LET q == proc["op"]
  IN /\ q.pc = "wait429" /\ q.retryAfter = <<53>> /\ q.timer = 5000
     /\ q.waits = 2 /\ q.retryDelay = 4 * InitialDelayMs


\* an invocation of the API operation is under way
Running == proc["op"].pc # "idle"

\* C22: whatever the responses and failures, an API operation calls its
\* request producer at most maxRetries + 1 times, and an operation that is
\* under way ends, either returning or throwing.
C22_RetryBounded ==
  /\ [](proc["op"].requests <= maxRetries + 1)
  /\ [](proc["op"].attempt <= maxRetries)
  /\ (Running ~> (~Running /\ proc["op"].outcome \in {"returned", "threw"}))

C22_Witness ==
  LET q == proc["op"]
  IN q.pc = "request" /\ q.requests = maxRetries + 1 /\ q.waits = 2
       /\ q.log.refreshes = 1 /\ q.lastError = "network"


\* C23 (as claimed): the error an API operation throws for a non-2xx response
\* other than 429 and 401 carries the message parsed from the body when the
\* body is structured error detail, and the raw body only when the body
\* cannot be parsed.
C23_ErrorCarriesParsedMessage ==
  LET q == proc["op"]
  IN q.pc = "idle" /\ q.thrown = "api" =>
       /\ q.log.body = "structured" => q.log.detail = "message"
       /\ q.log.detail = "raw" => q.log.body = "text"


\* invocation p is in its loop over the reminders
InLoop(p) == pass[p].pc \notin {"idle", "getTaskListByName", "getTasks"}

\* the remote requests and document writes invocation p has completed
Completed(p) == obs[p].creates + obs[p].updates + obs[p].writes

\* ... and those of them that were made for the item at hand
CompletedOfItem(p) == obs[p].item.creates + obs[p].item.updates + obs[p].item.writes

\* C24: within one pass the items are processed one after the other: while
\* item i is being processed the items before it have all been counted, the
\* pass moves on to item i + 1 only from the tally of item i, when no request
\* and no write of item i is awaited any more, and every step completes at
\* most one request or write, which belongs to the item at hand.
C24_ItemsSerial ==
  /\ [](\A p \in PassIds :
          InLoop(p) => pass[p].idx \in Items /\ obs[p].processed = pass[p].idx - 1)
  /\ [][\A p \in PassIds :
          /\ (InLoop(p) /\ pass'[p].idx # pass[p].idx) =>
               /\ pass[p].pc = "tally"
               /\ obs'[p].processed = pass[p].idx
               /\ obs'[p].item = NoItemObs
               /\ pass'[p].idx = pass[p].idx + 1 /\ pass'[p].pc = "readLine"
          /\ (InLoop(p) /\ Completed(p)' # Completed(p)) =>
               /\ Completed(p)' = Completed(p) + 1
               /\ CompletedOfItem(p)' = CompletedOfItem(p) + 1
               /\ pass'[p].idx = pass[p].idx]_vars

C24_Witness ==
  \E p \in PassIds :
    /\ pass[p].idx = 2 /\ pass[p].pc = "createWrite"
    /\ obs[p].processed = 1 /\ obs[p].creates = 2 /\ obs[p].writes = 1
    /\ obs[p].item.creates = 1 /\ obs[p].item.writes = 0


\* C25: the periodic driver never has two invocations of its task in flight:
\* the flag is set exactly while an invocation is in flight, so it is clear
\* again once the invocation has settled, with or without an error; a tick
\* that arrives while an invocation is in flight is skipped and starts none,
\* and a tick that arrives when none is in flight starts one.
C25_NoOverlappingRuns ==
  /\ [](worker.running <= 1)
  /\ [](worker.started => (worker.intervalTaskRunning <=> worker.running = 1))
  /\ [][worker'.ticks = worker.ticks + 1 =>
          IF worker.running > 0
            THEN worker'.skipped = worker.skipped + 1 /\ worker'.invoked = worker.invoked
            ELSE worker'.skipped = worker.skipped /\ worker'.invoked = worker.invoked + 1
                   /\ worker'.running = 1]_vars

C25_Witness ==
  /\ worker.skipped >= 1 /\ worker.failed >= 1 /\ worker.invoked >= 3
  /\ worker.running = 1 /\ worker.intervalTaskRunning


\* C26 (as claimed): an API operation that is called while token data with a
\* refresh token is held does not fail with a not-authenticated error, also
\* when the access token has expired or is inside the buffer: it refreshes
\* and proceeds.
C26_ExpiryNotSurfaced ==
  LET q == proc["op"]
  IN q.pc = "idle" /\ q.thrown = "not_authenticated" =>
       ~(tokenData.held /\ tokenData.refresh_token # 0)


\* metadata has been encoded onto the line, and the line has been decoded
Encoded == sample.encoded # <<>>
Decoded == sample.decoded # <<>>

\* C27 (as claimed): for every line and all well-formed metadata m, decoding
\* the line that encoding m onto it has produced returns m; decoding a line
\* without a metadata block returns absent; and decoding a line whose first
\* block is malformed returns absent.
C27_RoundTrip ==
  Decoded =>
    /\ Encoded /\ sample.encoded[1].present => sample.decoded[1] = sample.encoded[1]
    /\ CountMatches(sample.line, 1) = 0 => sample.decoded[1] = NullMeta
    /\ sample.line \in {T_array, T_unparsable, T_numberId, T_noChecksum, T_empty} =>
         sample.decoded[1] = NullMeta

\* C28 (as claimed): encoding strips every block of the line and appends the
\* new one, or nothing for null metadata: encoding the same metadata again
\* leaves the line as it is, after encoding m the line has one block, from
\* which m is decoded, whatever was encoded before, and after encoding null
\* the line has no block and absent is decoded from it.
C28_EncodeReplaces ==
  Encoded =>
    LET m == sample.encoded[1]
    IN /\ updateMarkdownLineWithMetadataText(sample.line, m) = sample.line
       /\ CountMatches(sample.line, 1) = IF m.present THEN 1 ELSE 0
       /\ extractGoogleTaskMetadataText(sample.line) = m


\* the (trimmed title, due, completion) triple of a reminder
TripleOf(r) == <<trim(r.title), r.time, r.done>>

\* the fields in which two triples differ
DifferingFields(s, t) == {k \in 1..3 : s[k] # t[k]}

\* C29 (as claimed): two reminders with identical (trimmed title, due,
\* completion) triples have the same checksum, and two reminders whose
\* triples differ in exactly one field have different checksums.
C29_ChecksumTellsApart ==
  (sample.sums[1] # <<>> /\ sample.sums[2] # <<>>) =>
    LET fields == DifferingFields(TripleOf(sample.first), TripleOf(sample.second))
    IN /\ fields = {} => sample.sums[1] = sample.sums[2]
       /\ Cardinality(fields) = 1 => sample.sums[1] # sample.sums[2]


\* C30: in the state in which clearTokenData returns, whatever the state it
\* was called in, no token data is held in memory, storage has no token
\* record, no code verifier and no redirect URI, and isAuthenticated() is
\* false.
C30_ClearWipes ==
  [][ClearTokenData =>
       /\ tokenData' = NoToken
       /\ storage'.token = NoToken /\ storage'.verifier = 0 /\ storage'.redirect = 0
       /\ ~isAuthenticated(tokenData', now')]_vars

C30_Witness ==
  \E c, d \in Callers :
    /\ seen[d].exchange = "ok" /\ seen[d].outcome = "returned"
    /\ caller[c].pc = "waitCode" /\ seen[c].verifiers = 1
    /\ tokenData = NoToken /\ storage = EmptyStorage


\* C31: the listener handles one path. A request on it with a code gets the
\* confirmation page, resolves the pending code promise and schedules the
\* shutdown; a request on it without a code gets the failure page and rejects
\* the pending promise; a request on any other path gets the not-found
\* response and leaves the promise and the timers as they were.
C31_ListenerPaths ==
  [][\A n \in ServerIds :
       servers'[n].requests = servers[n].requests + 1 =>
         LET before == servers[n]
             after == servers'[n]
         IN  /\ sample'.listener = n
             /\ sample'.request \in {"code", "nocode", "other"}
             /\ sample'.request = "code" =>
                  /\ sample'.page = "confirmation"
                  /\ before.promise = "pending" => after.promise = "resolved"
                  /\ after.timers = before.timers + 1
             /\ sample'.request = "nocode" =>
                  /\ sample'.page = "failure"
                  /\ before.promise = "pending" => after.promise = "rejected"
                  /\ after.timers = before.timers
             /\ sample'.request = "other" =>
                  /\ sample'.page = "notFound"
                  /\ after.promise = before.promise
                  /\ after.timers = before.timers]_vars

\* one listener has resolved its promise on a callback with a code, and
\* another has just answered a request on another path with not-found, its
\* promise still pending
C31_Witness ==
  \E n, m \in ServerIds :
    /\ servers[n].promise = "resolved" /\ servers[n].requests = 1
    /\ sample.listener = m /\ sample.request = "other" /\ sample.page = "notFound"
    /\ servers[m].promise = "pending" /\ servers[m].requests = 1

\* the item in hand of invocation p has gone through the recreate path
InRecreate(p) == obs[p].item.removal # "none"

\* the create of the recreate path has failed for the item in hand
RecreateCreateFailed(p) ==
  /\ InRecreate(p)
  /\ obs[p].item.creates = 1
  /\ obs[p].item.createdId = 0

\* C32: in a recreate the removal of the stale metadata is attempted before
\* the replacement task is created, and the new metadata is written only
\* after the create has returned a task, whose id it carries; when the create
\* fails after the removal was done, the line carries no metadata and the
\* item ends as an error; a pass that reads a line without metadata handles
\* the item as a new one.
C32_RemoveBeforeRecreate ==
  \A p \in PassIds :
    LET item == obs[p].item
        i == pass[p].idx
    IN  /\ (item.fetch # "none" /\ item.creates > 0) => InRecreate(p)
        /\ (InRecreate(p) /\ item.wroteMeta) =>
             /\ item.createdId # 0
             /\ tasks[item.createdId].status # "absent"
             /\ extractGoogleTaskMetadata(lines[i]).id = item.createdId
        /\ (InRecreate(p) /\ item.createdId = 0) =>
             lines[i].blocks \in {<<>>, item.lineBefore.blocks}
        /\ (RecreateCreateFailed(p) /\ item.removal = "done") =>
             /\ extractGoogleTaskMetadata(lines[i]) = NoMeta
             /\ lines[i].blocks = <<>>
             /\ pass[p].pc = "tally" /\ pass[p].resultStatus = "error"
        /\ (item.branch \notin {"none", "unread"}
              /\ extractGoogleTaskMetadata(item.lineBefore) = NoMeta) =>
             item.branch = "create"

\* the create has failed after the stale metadata was removed from the line
C32_Witness ==
  /\ RecreateCreateFailed("A")
  /\ obs["A"].item.removal = "done"
  /\ obs["A"].item.writes = 1
  /\ extractGoogleTaskMetadata(obs["A"].item.lineBefore) # NoMeta
  /\ lines[pass["A"].idx].blocks = <<>>
  /\ pass["A"].resultStatus = "error"


\* C33: an item that a pass reports as created or updated carries, on its
\* source line, metadata with the id of the task that was created or updated
\* and the current checksum of the reminder.
C33_CountedOnlyWhenLinked ==
  \A p \in PassIds :
    (pass[p].pc = "tally" /\ pass[p].resultStatus \in {"created", "updated"}) =>
      LET meta == extractGoogleTaskMetadata(lines[pass[p].idx])
          id == IF pass[p].resultStatus = "created" THEN obs[p].item.createdId
                ELSE pass[p].existingMetadata.id
      IN  /\ meta # NoMeta
          /\ meta.id = id
          /\ meta.checksum = pass[p].currentChecksum


\* invocation p has created a task for item i, whose line it read without
\* metadata
CreatedForNew(p, i) ==
  /\ pass[p].idx = i
  /\ obs[p].item.branch = "create"
  /\ extractGoogleTaskMetadata(obs[p].item.lineBefore) = NoMeta
  /\ obs[p].item.createdId # 0

\* C34: two invocations of syncGoogleTasks never both create a remote task
\* for the same item without metadata.
C34_OneTaskPerNewItem ==
  \A i \in Items : \A p, q \in PassIds :
    (CreatedForNew(p, i) /\ CreatedForNew(q, i)) => p = q


\* no token data in memory and no token record in storage
NothingHeld == tokenData = NoToken /\ storage.token = NoToken

\* C35: without an authorization-code exchange, once no token data is held in
\* memory or in storage (clearTokenData has run), none is held afterwards: the
\* response of a refresh that was in flight stores nothing.
C35_ClearedStaysCleared ==
  [][NothingHeld => NothingHeld']_vars


\* C36: a request of executeWithRetry is issued only while token data is
\* held: it carries the access token of the token data, never the bearer of
\* no token data.
C36_NoRequestWithoutToken ==
  proc["op"].pc = "request" =>
    /\ tokenData # NoToken
    /\ proc["op"].bearer # 0


\* C37: when the direct fetch of the linked task has failed with an error
\* other than a 404, the item ends as an error: no remote task is created for
\* it and its line is as it was read.
C37_FetchFailureIsError ==
  \A p \in PassIds :
    obs[p].item.fetchFailed =>
      /\ pass[p].pc = "tally" /\ pass[p].resultStatus = "error"
      /\ obs[p].item.creates = 0
      /\ lines[pass[p].idx] = obs[p].item.lineBefore


\* C38: when marking an item done locally has failed, the item ends as an
\* error, its line is as it was read, and the reminder in memory is done only
\* if the line has the checked box.
C38_FailedCompletionKeepsFlag ==
  \A p \in PassIds :
    (pass[p].pc = "tally" /\ obs[p].item.fetch = "completed" /\ obs[p].item.failed) =>
      LET i == pass[p].idx
      IN  /\ pass[p].resultStatus = "error"
          /\ lines[i] = obs[p].item.lineBefore
          /\ reminders[i].done => lines[i].box = "done"


\* C39: the success notice of authenticateWithGoogleTasks is shown only for
\* an invocation whose authorize has exchanged a code for tokens; an
\* invocation that returned at the guard shows neither the notice nor the
\* failure dialog.
C39_NoticeOnlyAfterExchange ==
  \A c \in Callers :
    /\ seen[c].shown = "successNotice" => seen[c].exchange = "ok"
    /\ seen[c].outcome = "noop" => seen[c].shown = "none"


\* invocation c has sent its exchange request and awaits the answer
Exchanging(c) == caller[c].pc = "exchange"

\* C40: the exchange request of a flow carries the code verifier whose
\* challenge was in the authorization URL of that flow and the redirect URI
\* that was in that URL; when the verifier or the redirect URI is missing
\* from storage as the code arrives, the call goes to its catch block without
\* a request to the token endpoint, and the token data in memory and in
\* storage is as it was.
C40_ExchangeSendsOwnParameters ==
  /\ [](\A c \in Callers :
          Exchanging(c) =>
            /\ caller[c].code_verifier # 0
            /\ caller[c].code_verifier = caller[c].codeChallenge
            /\ caller[c].redirect_uri # 0
            /\ caller[c].redirect_uri = caller[c].currentRedirectUri)
  /\ [][\A c \in Callers :
          (/\ caller[c].pc = "waitCode"
           /\ caller'[c].pc # "waitCode"
           /\ servers[caller[c].awaited].promise = "resolved"
           /\ (storage.verifier = 0 \/ storage.redirect = 0)) =>
            /\ caller'[c].pc = "catch"
            /\ seen'[c].exchange = "failed"
            /\ tokenData' = tokenData
            /\ storage' = storage]_vars

\* the second flow has sent its exchange request with its own verifier and
\* redirect URI, while the first caller has found the two records cleared as
\* its code arrived
C40_Witness ==
  \E c, d \in Callers :
    /\ Exchanging(c)
    /\ caller[c].codeChallenge = 2
    /\ caller[c].redirect_uri = RedirectUriOf(2)
    /\ seen[d].exchange = "failed"
    /\ seen[d].outcome = "threw"
    /\ seen[d].verifierAtEnd = 0

====
